---- MODULE Spec2Model ----
(***************************************************************************)
(* USDCFacilitator (contract/USDCFacilitatorBulk.sol) together with the    *)
(* token ledger it drives through IUSDC and the holder's permit signing    *)
(* (src/utils/permitUtils.js, src/components/FacilitateTransfer.jsx).      *)
(*                                                                         *)
(* A transaction either commits all of its effects or reverts and leaves   *)
(* the chain state as it was.  keccak256(abi.encodePacked(...)) is taken   *)
(* to be injective: a fingerprint is the record of the packed fields.      *)
(* A signature (v, r, s) is identified with the signer and the Permit      *)
(* message it signs; BadSig is a triple that recovers to no holder.        *)
(***************************************************************************)
EXTENDS Integers, Sequences, FiniteSets, TLC

\* ---------------------------------------------------------------- bounds
MaxValue == 3
MaxTime == 3
MaxNonce == 1
MaxRecipients == 2
InitBalance == 2
MaxInFlight == 2

\* ------------------------------------------------------------- addresses
ZERO == "zero"
ALICE == "alice"
BOB == "bob"
FEE == "fee"
THIS == "facilitator"
\* addresses the ledger refuses to credit: a transferFrom to FROZEN reverts,
\* a transferFrom to MUTE returns false and moves nothing
FROZEN == "frozen"
MUTE == "mute"

Holders == {ALICE}
Accounts == {ALICE, BOB, FEE}
Addresses == Accounts \cup {ZERO}

Values == 0..MaxValue
Deadlines == 1..(MaxTime - 1)

VARIABLES balances, allowance, nonces, usedPermits, feeCollector, now, spent, last,
          relay

vars == <<balances, allowance, nonces, usedPermits, feeCollector, now, spent, last, relay>>

chain == <<balances, allowance, nonces, usedPermits, feeCollector>>

\* ------------------------------------------------------------ signatures
\* permitUtils.js createUSDCPermitMessage: the message is
\* {owner, spender, value, nonce, deadline}; the spender the UI signs for is
\* always the facilitator.
createUSDCPermitMessage(owner, spender, value, nonce, deadline) ==
    [owner |-> owner, spender |-> spender, value |-> value,
     nonce |-> nonce, deadline |-> deadline]

SignTypedData(signer, msg) == [signer |-> signer, msg |-> msg]

BadSig == [signer |-> "nobody",
           msg |-> createUSDCPermitMessage("nobody", "nobody", 0, 0, 0)]

NoSig == [signer |-> "none",
          msg |-> createUSDCPermitMessage("none", "none", 0, 0, 0)]

\* ---------------------------------------------------------------- ledger
\* IUSDC.permit (EIP-2612): the signature must recover to the owner over
\* the message for the owner's current nonce, and the deadline must not have
\* passed.
PermitAccepts(L, owner, spender, value, deadline, sig, t) ==
    /\ owner \in Holders
    /\ t <= deadline
    /\ sig.signer = owner
    /\ sig.msg = createUSDCPermitMessage(owner, spender, value,
                                         L.nonces[owner], deadline)

\* mutant: the allowance is set but the nonce is not consumed
PermitApplyKeepsNonce(L, owner, value) ==
    [L EXCEPT !.allow[owner] = value]

PermitApply(L, owner, value) ==
    [L EXCEPT !.allow[owner] = value, !.nonces[owner] = @ + 1]

\* IUSDC.transferFrom with the facilitator as spender.
TransferFromOk(L, from, to, amount) ==
    /\ from \in Holders
    /\ to \in Accounts
    /\ L.allow[from] >= amount
    /\ L.bal[from] >= amount

TransferFromApply(L, from, to, amount) ==
    [L EXCEPT !.allow[from] = @ - amount,
              !.bal = [a \in Accounts |->
                         IF a = from /\ a = to THEN L.bal[a]
                         ELSE IF a = from THEN L.bal[a] - amount
                         ELSE IF a = to THEN L.bal[a] + amount
                         ELSE L.bal[a]]]

BalanceOf(L, a) == IF a \in Accounts THEN L.bal[a] ELSE 0

NoncesOf(L, a) == IF a \in Holders THEN L.nonces[a] ELSE 0

\* What a transferFrom call comes to: it returns true, returns false, or
\* reverts.
TransferFromReturns(L, from, to, amount) ==
    IF to = MUTE THEN "false"
    ELSE IF TransferFromOk(L, from, to, amount) THEN "true"
    ELSE "revert"

\* usdc.transferFrom(owner, ..., ...) statement after statement; the value
\* a call returns is not looked at, a call that reverts makes the whole
\* transaction revert (ok = FALSE).
RECURSIVE ApplyMoves(_, _, _)
ApplyMoves(L, from, moves) ==
    IF moves = <<>> THEN [ok |-> TRUE, L |-> L]
    ELSE IF TransferFromReturns(L, from, moves[1].to, moves[1].amount) = "revert"
         THEN [ok |-> FALSE, L |-> L]
    ELSE IF TransferFromReturns(L, from, moves[1].to, moves[1].amount) = "false"
         THEN ApplyMoves(L, from, Tail(moves))
    ELSE ApplyMoves(TransferFromApply(L, from, moves[1].to, moves[1].amount),
                    from, Tail(moves))

RECURSIVE SumAmounts(_)
SumAmounts(rs) == IF rs = <<>> THEN 0 ELSE rs[1].amount + SumAmounts(Tail(rs))

\* ---------------------------------------------------------- fingerprints
\* mutant: the value is left out of the packed fields
PermitHashWithoutValue(owner, value, deadline, sig) ==
    [kind |-> "sig", owner |-> owner, spender |-> THIS, value |-> 0,
     deadline |-> deadline, nonce |-> -1, sig |-> sig, count |-> -1]

\* keccak256(abi.encodePacked(owner, address(this), value, deadline, v, r, s))
PermitHash(owner, value, deadline, sig) ==
    [kind |-> "sig", owner |-> owner, spender |-> THIS, value |-> value,
     deadline |-> deadline, nonce |-> -1, sig |-> sig, count |-> -1]

\* keccak256(abi.encodePacked(owner, address(this), value, deadline, nonce, v, r, s))
NonStandardPermitHash(owner, value, deadline, nonce, sig) ==
    [kind |-> "nonce+sig", owner |-> owner, spender |-> THIS, value |-> value,
     deadline |-> deadline, nonce |-> nonce, sig |-> sig, count |-> -1]

\* keccak256(abi.encodePacked(owner, address(this), totalValue, deadline,
\*                            nonce, recipients.length))
BulkNonStandardPermitHash(owner, totalValue, deadline, nonce, count) ==
    [kind |-> "nonce+count", owner |-> owner, spender |-> THIS,
     value |-> totalValue, deadline |-> deadline, nonce |-> nonce,
     sig |-> NoSig, count |-> count]

\* calculatePermitHash(owner, value, deadline, v, r, s):
\* keccak256(abi.encodePacked(owner, address(this), value, deadline, v, r, s))
calculatePermitHash(owner, value, deadline, sig) ==
    [kind |-> "sig", owner |-> owner, spender |-> THIS, value |-> value,
     deadline |-> deadline, nonce |-> -1, sig |-> sig, count |-> -1]

\* calculateBulkPermitHash(owner, totalValue, deadline, recipientCount):
\* keccak256(abi.encodePacked(owner, address(this), totalValue, deadline,
\*                            recipientCount))
calculateBulkPermitHash(owner, totalValue, deadline, recipientCount) ==
    [kind |-> "count", owner |-> owner, spender |-> THIS, value |-> totalValue,
     deadline |-> deadline, nonce |-> -1, sig |-> NoSig, count |-> recipientCount]

\* isPermitUsed(permitHash)
isPermitUsed(S, permitHash) == permitHash \in S.used

\* ------------------------------------------------------ input validation
\* mutant: a permit is already expired at its deadline
ExpiredAtDeadline(deadline, t) == t >= deadline

\* if (block.timestamp > deadline) revert PermitExpired();
Expired(deadline, t) == t > deadline

\* mutant: a fee equal to the value is let through
SingleInputValidationFeeUpToValue(owner, to, value, deadline, feeAmount, t) ==
    IF owner = ZERO \/ to = ZERO THEN "InvalidRecipient"
    ELSE IF value = 0 THEN "ZeroAmount"
    ELSE IF feeAmount > value THEN "InvalidFeeAmount"
    ELSE IF Expired(deadline, t) THEN "PermitExpired"
    ELSE "ok"

\* facilitateTransferWithPermit / ...WithNonStandardPermit, "Input validation"
SingleInputValidation(owner, to, value, deadline, feeAmount, t) ==
    IF owner = ZERO \/ to = ZERO THEN "InvalidRecipient"
    ELSE IF value = 0 THEN "ZeroAmount"
    ELSE IF feeAmount >= value THEN "InvalidFeeAmount"
    ELSE IF Expired(deadline, t) THEN "PermitExpired"
    ELSE "ok"

\* mutant: the amounts of the entries are not looked at
RECURSIVE RecipientLoopAnyAmount(_)
RecipientLoopAnyAmount(rs) ==
    IF rs = <<>> THEN "ok"
    ELSE IF rs[1].to = ZERO THEN "InvalidRecipient"
    ELSE RecipientLoopAnyAmount(Tail(rs))

\* the recipient loop of the bulk entry points
RECURSIVE RecipientLoop(_)
RecipientLoop(rs) ==
    IF rs = <<>> THEN "ok"
    ELSE IF rs[1].to = ZERO THEN "InvalidRecipient"
    ELSE IF rs[1].amount = 0 THEN "InvalidRecipientAmount"
    ELSE RecipientLoop(Tail(rs))

\* mutant: the total is not compared with the sum of the amounts and the fee
BulkInputValidationNoSum(owner, recipients, totalValue, deadline, feeAmount, t) ==
    IF owner = ZERO THEN "InvalidRecipient"
    ELSE IF Len(recipients) = 0 THEN "EmptyRecipientList"
    ELSE IF totalValue = 0 THEN "ZeroAmount"
    ELSE IF feeAmount >= totalValue THEN "InvalidFeeAmount"
    ELSE IF Expired(deadline, t) THEN "PermitExpired"
    ELSE IF RecipientLoop(recipients) # "ok" THEN RecipientLoop(recipients)
    ELSE "ok"

\* facilitateBulkTransferWithPermit / ...WithNonStandardPermit, validation up
\* to and including the sum check
BulkInputValidation(owner, recipients, totalValue, deadline, feeAmount, t) ==
    IF owner = ZERO THEN "InvalidRecipient"
    ELSE IF Len(recipients) = 0 THEN "EmptyRecipientList"
    ELSE IF totalValue = 0 THEN "ZeroAmount"
    ELSE IF feeAmount >= totalValue THEN "InvalidFeeAmount"
    ELSE IF Expired(deadline, t) THEN "PermitExpired"
    ELSE IF RecipientLoop(recipients) # "ok" THEN RecipientLoop(recipients)
    ELSE IF totalValue # SumAmounts(recipients) + feeAmount THEN "InvalidFeeAmount"
    ELSE "ok"

\* ----------------------------------------------------------------- payout
\* mutant: the fee transfer is left out
SingleMovesNoFee(to, value, feeAmount, fc) ==
    <<[to |-> to, amount |-> value - feeAmount]>>

\* fee to the fee collector (skipped when zero), then value - fee to `to`
SingleMoves(to, value, feeAmount, fc) ==
    (IF feeAmount > 0 THEN <<[to |-> fc, amount |-> feeAmount]>> ELSE <<>>)
    \o <<[to |-> to, amount |-> value - feeAmount]>>

\* mutant: the recipients are paid in reverse order
BulkMovesReversed(recipients, feeAmount, fc) ==
    (IF feeAmount > 0 THEN <<[to |-> fc, amount |-> feeAmount]>> ELSE <<>>)
    \o [i \in 1..Len(recipients) |-> recipients[Len(recipients) + 1 - i]]

\* fee to the fee collector (skipped when zero), then every recipient in order
BulkMoves(recipients, feeAmount, fc) ==
    (IF feeAmount > 0 THEN <<[to |-> fc, amount |-> feeAmount]>> ELSE <<>>)
    \o recipients

NoEvent == [kind |-> "none", owner |-> ZERO, to |-> ZERO, count |-> 0,
            amountSent |-> 0, feeAmount |-> 0]

\* mutant: the event reports the total, fee included, as the amount sent
FacilitationExecutedGross(owner, to, amountSent, feeAmount) ==
    [kind |-> "FacilitationExecuted", owner |-> owner, to |-> to, count |-> 1,
     amountSent |-> amountSent + feeAmount, feeAmount |-> feeAmount]

\* event FacilitationExecuted(owner, to, amountSent, feeAmount)
FacilitationExecuted(owner, to, amountSent, feeAmount) ==
    [kind |-> "FacilitationExecuted", owner |-> owner, to |-> to, count |-> 1,
     amountSent |-> amountSent, feeAmount |-> feeAmount]

\* event BulkFacilitationExecuted(owner, recipientCount, totalAmountSent, feeAmount)
BulkFacilitationExecuted(owner, count, totalAmountSent, feeAmount) ==
    [kind |-> "BulkFacilitationExecuted", owner |-> owner, to |-> ZERO,
     count |-> count, amountSent |-> totalAmountSent, feeAmount |-> feeAmount]

\* The state a transaction works on: S = [L, used, fc].  An outcome carries
\* the error ("ok" when none), the state as written up to that point, the
\* transferFrom calls made and the event emitted.
Outcome(err, S, moves, event) ==
    [err |-> err, S |-> S, moves |-> moves, event |-> event]

\* mutant: the ledger's permit is not asked
PermitAndPayWithoutPermit(S, owner, value, deadline, sig, moves, event, t) ==
    IF BalanceOf(S.L, owner) < value
    THEN Outcome("InsufficientBalance", S, <<>>, NoEvent)
    ELSE LET res == ApplyMoves(PermitApply(S.L, owner, value), owner, moves)
         IN  IF ~res.ok
             THEN Outcome("TransferReverted", [S EXCEPT !.L = res.L], <<>>, NoEvent)
             ELSE Outcome("ok", [S EXCEPT !.L = res.L], moves, event)

\* balance check, permit (try/catch), transfers: the common tail of the four
\* entry points
PermitAndPay(S, owner, value, deadline, sig, moves, event, t) ==
    IF BalanceOf(S.L, owner) < value
    THEN Outcome("InsufficientBalance", S, <<>>, NoEvent)
    ELSE IF ~PermitAccepts(S.L, owner, THIS, value, deadline, sig, t)
    THEN Outcome("InvalidPermitSignature", S, <<>>, NoEvent)
    ELSE LET res == ApplyMoves(PermitApply(S.L, owner, value), owner, moves)
         IN  IF ~res.ok
             THEN Outcome("TransferReverted", [S EXCEPT !.L = res.L], <<>>, NoEvent)
             ELSE Outcome("ok", [S EXCEPT !.L = res.L], moves, event)

\* mutant: the entry is set without being looked up first
CheckAndMarkWithoutCheck(S, permitHash) ==
    [err |-> "ok", S |-> [S EXCEPT !.used = @ \cup {permitHash}]]

\* if (usedPermits[permitHash]) revert PermitAlreadyUsed();
\* usedPermits[permitHash] = true;
CheckAndMark(S, permitHash) ==
    IF permitHash \in S.used
    THEN [err |-> "PermitAlreadyUsed", S |-> S]
    ELSE [err |-> "ok", S |-> [S EXCEPT !.used = @ \cup {permitHash}]]

\* ----------------------------------------------------------- entry points
\* mutant: the registry is looked up before the input is validated
facilitateTransferWithPermitLookupFirst(S, owner, to, value, deadline, sig, feeAmount, t) ==
    LET v == SingleInputValidation(owner, to, value, deadline, feeAmount, t)
        m == CheckAndMark(S, PermitHash(owner, value, deadline, sig))
    IN  IF m.err # "ok" THEN Outcome(m.err, m.S, <<>>, NoEvent)
        ELSE IF v # "ok" THEN Outcome(v, S, <<>>, NoEvent)
        ELSE PermitAndPay(m.S, owner, value, deadline, sig,
                          SingleMoves(to, value, feeAmount, S.fc),
                          FacilitationExecuted(owner, to, value - feeAmount, feeAmount),
                          t)

facilitateTransferWithPermit(S, owner, to, value, deadline, sig, feeAmount, t) ==
    LET v == SingleInputValidation(owner, to, value, deadline, feeAmount, t)
        m == CheckAndMark(S, PermitHash(owner, value, deadline, sig))
    IN  IF v # "ok" THEN Outcome(v, S, <<>>, NoEvent)
        ELSE IF m.err # "ok" THEN Outcome(m.err, m.S, <<>>, NoEvent)
        ELSE PermitAndPay(m.S, owner, value, deadline, sig,
                          SingleMoves(to, value, feeAmount, S.fc),
                          FacilitationExecuted(owner, to, value - feeAmount, feeAmount),
                          t)

\* mutant: the entries of the list are looked at before every other check
facilitateBulkTransferWithPermitLoopFirst(S, owner, recipients, totalValue, deadline, sig, feeAmount, t) ==
    LET l == RecipientLoop(recipients)
        v == BulkInputValidation(owner, recipients, totalValue, deadline, feeAmount, t)
    IN  IF l # "ok" THEN Outcome(l, S, <<>>, NoEvent)
        ELSE IF v # "ok" THEN Outcome(v, S, <<>>, NoEvent)
        ELSE PermitAndPay(S, owner, totalValue, deadline, sig,
                          BulkMoves(recipients, feeAmount, S.fc),
                          BulkFacilitationExecuted(owner, Len(recipients),
                                                   SumAmounts(recipients), feeAmount),
                          t)

facilitateBulkTransferWithPermit(S, owner, recipients, totalValue, deadline, sig, feeAmount, t) ==
    LET v == BulkInputValidation(owner, recipients, totalValue, deadline, feeAmount, t)
    IN  IF v # "ok" THEN Outcome(v, S, <<>>, NoEvent)
        ELSE PermitAndPay(S, owner, totalValue, deadline, sig,
                          BulkMoves(recipients, feeAmount, S.fc),
                          BulkFacilitationExecuted(owner, Len(recipients),
                                                   SumAmounts(recipients), feeAmount),
                          t)

facilitateTransferWithNonStandardPermit(S, owner, to, value, deadline, sig, feeAmount, t) ==
    LET v == SingleInputValidation(owner, to, value, deadline, feeAmount, t)
        nonce == NoncesOf(S.L, owner)
        m == CheckAndMark(S, NonStandardPermitHash(owner, value, deadline, nonce, sig))
    IN  IF v # "ok" THEN Outcome(v, S, <<>>, NoEvent)
        ELSE IF m.err # "ok" THEN Outcome(m.err, m.S, <<>>, NoEvent)
        ELSE PermitAndPay(m.S, owner, value, deadline, sig,
                          SingleMoves(to, value, feeAmount, S.fc),
                          FacilitationExecuted(owner, to, value - feeAmount, feeAmount),
                          t)

facilitateBulkTransferWithNonStandardPermit(S, owner, recipients, totalValue, deadline, sig, feeAmount, t) ==
    LET v == BulkInputValidation(owner, recipients, totalValue, deadline, feeAmount, t)
        nonce == NoncesOf(S.L, owner)
        m == CheckAndMark(S, BulkNonStandardPermitHash(owner, totalValue, deadline,
                                                       nonce, Len(recipients)))
    IN  IF v # "ok" THEN Outcome(v, S, <<>>, NoEvent)
        ELSE IF m.err # "ok" THEN Outcome(m.err, m.S, <<>>, NoEvent)
        ELSE PermitAndPay(m.S, owner, totalValue, deadline, sig,
                          BulkMoves(recipients, feeAmount, S.fc),
                          BulkFacilitationExecuted(owner, Len(recipients),
                                                   SumAmounts(recipients), feeAmount),
                          t)

\* mutant: a revert keeps the registry writes of the transaction
CommitKeepsRegistry(pre, out) ==
    IF out.err = "ok" THEN out.S ELSE [pre EXCEPT !.used = out.S.used]

\* A revert undoes every write of the transaction; only an "ok" outcome is
\* committed.
Commit(pre, out) == IF out.err = "ok" THEN out.S ELSE pre

\* -------------------------------------------------------------- requests
SingleFns == {"facilitateTransferWithPermit", "facilitateTransferWithNonStandardPermit"}
BulkFns == {"facilitateBulkTransferWithPermit", "facilitateBulkTransferWithNonStandardPermit"}

Request(fn, owner, to, recipients, value, deadline, sig, feeAmount) ==
    [fn |-> fn, owner |-> owner, to |-> to, recipients |-> recipients,
     value |-> value, deadline |-> deadline, sig |-> sig, feeAmount |-> feeAmount]

NoRequest == Request("none", ZERO, ZERO, <<>>, 0, 0, NoSig, 0)

Dispatch(S, req, t) ==
    IF req.fn = "facilitateTransferWithPermit"
    THEN facilitateTransferWithPermit(S, req.owner, req.to, req.value,
                                      req.deadline, req.sig, req.feeAmount, t)
    ELSE IF req.fn = "facilitateTransferWithNonStandardPermit"
    THEN facilitateTransferWithNonStandardPermit(S, req.owner, req.to, req.value,
                                      req.deadline, req.sig, req.feeAmount, t)
    ELSE IF req.fn = "facilitateBulkTransferWithPermit"
    THEN facilitateBulkTransferWithPermit(S, req.owner, req.recipients, req.value,
                                      req.deadline, req.sig, req.feeAmount, t)
    ELSE facilitateBulkTransferWithNonStandardPermit(S, req.owner, req.recipients,
                                      req.value, req.deadline, req.sig,
                                      req.feeAmount, t)

\* The registry key the entry point of a request looks up (the standard bulk
\* entry point looks none up).
HasFingerprint(req) == req.fn # "facilitateBulkTransferWithPermit"

Fingerprint(S, req) ==
    IF req.fn = "facilitateTransferWithPermit"
    THEN PermitHash(req.owner, req.value, req.deadline, req.sig)
    ELSE IF req.fn = "facilitateTransferWithNonStandardPermit"
    THEN NonStandardPermitHash(req.owner, req.value, req.deadline,
                               NoncesOf(S.L, req.owner), req.sig)
    ELSE BulkNonStandardPermitHash(req.owner, req.value, req.deadline,
                                   NoncesOf(S.L, req.owner), Len(req.recipients))

\* The permit a request carries: (owner, value, deadline, v, r, s).
PermitOf(req) ==
    [owner |-> req.owner, value |-> req.value, deadline |-> req.deadline,
     sig |-> req.sig]

\* ------------------------------------------------------------ observation
\* `last` is the request under observation: the permit a holder has just
\* signed (phase "signed"), the call of an entry point that has just been
\* executed, with its result (phase "done": the chain is as that call left
\* it), or a request executed earlier (phase "old": only the request and
\* what its earlier submissions came to are kept).
Observation(phase, req, err, moves, event, balBefore, fpUsedBefore, okBefore, insufBefore, spentBefore, asSigned) ==
    [phase |-> phase, req |-> req, err |-> err, moves |-> moves,
     event |-> event, balBefore |-> balBefore,
     fpUsedBefore |-> fpUsedBefore, okBefore |-> okBefore,
     insufBefore |-> insufBefore, spentBefore |-> spentBefore,
     asSigned |-> asSigned]

Idle == Observation("idle", NoRequest, "none", <<>>, NoEvent,
                    [a \in Accounts |-> 0], FALSE, FALSE, FALSE, FALSE, FALSE)

\* The relayer's requests in flight (POST /api/execute-permit-transfer being
\* handled) and transactions sent by anyone else: a slot is free, holds a
\* transaction that has been sent and is not yet mined, or holds the answer.
Slots == 1..MaxInFlight

FreeSlot == [pc |-> "free", req |-> NoRequest, answer |-> "none", raced |-> FALSE,
             sends |-> 0]

ChainState == [L |-> [bal |-> balances, allow |-> allowance, nonces |-> nonces],
               used |-> usedPermits, fc |-> feeCollector]

Init ==
    /\ balances = [a \in Accounts |-> IF a = ALICE THEN InitBalance
                                      ELSE IF a = BOB THEN 1 ELSE 0]
    /\ allowance = [h \in Holders |-> 0]
    /\ nonces = [h \in Holders |-> 0]
    /\ usedPermits = {}
    /\ feeCollector = FEE
    /\ now = 1
    /\ spent = {}
    /\ last = Idle
    /\ relay = [i \in Slots |-> FreeSlot]

\* One transaction calling an entry point: executed as a whole, committed or
\* reverted.
\* mutant: the writes made before a revert stay
ExecuteWithoutRevert(req) ==
    LET out == Dispatch(ChainState, req, now)
        post == out.S
    IN  /\ balances' = post.L.bal
        /\ allowance' = post.L.allow
        /\ nonces' = post.L.nonces
        /\ usedPermits' = post.used
        /\ feeCollector' = post.fc
        /\ spent' = IF out.err = "ok" THEN spent \cup {PermitOf(req)} ELSE spent

Execute(req) ==
    LET out == Dispatch(ChainState, req, now)
        post == Commit(ChainState, out)
    IN  /\ balances' = post.L.bal
        /\ allowance' = post.L.allow
        /\ nonces' = post.L.nonces
        /\ usedPermits' = post.used
        /\ feeCollector' = post.fc
        /\ spent' = IF out.err = "ok" THEN spent \cup {PermitOf(req)} ELSE spent

\* ... with the call and its result put under observation
Transact(req, okBefore, insufBefore, asSigned) ==
    LET out == Dispatch(ChainState, req, now)
    IN  /\ Execute(req)
        /\ last' = Observation("done", req, out.err,
                               IF out.err = "ok" THEN out.moves ELSE <<>>,
                               IF out.err = "ok" THEN out.event ELSE NoEvent,
                               balances,
                               HasFingerprint(req)
                                   /\ Fingerprint(ChainState, req) \in usedPermits,
                               okBefore, insufBefore,
                               PermitOf(req) \in spent, asSigned)
        /\ UNCHANGED <<now, relay>>

\* ----------------------------------------------------------- input bounds
RecipientEntries ==
    {[to |-> ZERO, amount |-> 1], [to |-> BOB, amount |-> 0],
     [to |-> BOB, amount |-> 1], [to |-> ALICE, amount |-> 2]}

RecipientLists ==
    UNION {[1..n -> RecipientEntries] : n \in 0..MaxRecipients}

\* A caller can present the signature of the observed request once the
\* holder has produced it, and again after that request has been executed;
\* otherwise bytes that recover to no holder.
Fresh == usedPermits = {} /\ spent = {}

CanCall ==
    \/ last.phase = "idle" /\ Fresh
    \/ last.phase = "signed"
    \/ last.phase \in {"done", "old"} /\ (last.err = "ok" \/ last.okBefore)

\* The argument tuples explored.  With the holder's signature: the permit
\* fields it was made for with any recipient(s) and fee, or the observed
\* request with the value or the deadline changed.  Without one: any
\* arguments.
SingleArgs ==
    IF last.phase = "idle"
    THEN {Request("single", owner, to, <<>>, value, deadline, BadSig, feeAmount) :
             owner \in {ZERO, ALICE}, to \in Addresses, value \in Values,
             deadline \in Deadlines, feeAmount \in Values}
    ELSE {Request("single", ALICE, to, <<>>, last.req.value, last.req.deadline,
                  last.req.sig, feeAmount) :
             to \in Addresses, feeAmount \in Values}
         \cup
         {Request("single", ALICE, last.req.to, <<>>, value, deadline,
                  last.req.sig, last.req.feeAmount) :
             value \in Values, deadline \in Deadlines}

BulkArgs ==
    IF last.phase = "idle"
    THEN {Request("bulk", owner, ZERO, recipients, totalValue, deadline, BadSig,
                  feeAmount) :
             owner \in {ZERO, ALICE}, recipients \in RecipientLists,
             totalValue \in Values, deadline \in Deadlines, feeAmount \in Values}
    ELSE {Request("bulk", ALICE, ZERO, recipients, last.req.value,
                  last.req.deadline, last.req.sig, feeAmount) :
             recipients \in RecipientLists, feeAmount \in Values}
         \cup
         {Request("bulk", ALICE, ZERO, last.req.recipients, value, deadline,
                  last.req.sig, last.req.feeAmount) :
             value \in Values, deadline \in Deadlines}

\* differs from the observed request in the value only or the deadline only
OneFieldOff(req) ==
    /\ req.fn = last.req.fn
    /\ (req.value = last.req.value) # (req.deadline = last.req.deadline)

Explored(req) ==
    \/ last.phase = "idle"
    \/ req.value = last.req.value /\ req.deadline = last.req.deadline
    \/ OneFieldOff(req)

\* same kind of transfer, recipient(s) and fee
SameTransfer(req, other) ==
    /\ (req.fn \in SingleFns) = (other.fn \in SingleFns)
    /\ req.to = other.to
    /\ req.recipients = other.recipients
    /\ req.feeAmount = other.feeAmount

Call(req) ==
    /\ Explored(req)
    /\ Transact(req,
                /\ last.phase \in {"done", "old"}
                /\ req = last.req
                /\ (last.okBefore \/ last.err = "ok"),
                /\ last.phase \in {"done", "old"}
                /\ req = last.req
                /\ (last.insufBefore \/ last.err = "InsufficientBalance"),
                /\ last.phase # "idle"
                /\ req.sig = last.req.sig
                /\ SameTransfer(req, last.req)
                /\ (last.phase = "signed" \/ last.asSigned))

\* ---------------------------------------------------------------- actions
\* getPermitDeadline(minutes): the form allows 1..1440 minutes from now
getPermitDeadline(t) == t + 1

Signed(fn, to, recipients, value, feeAmount, nonce) ==
    [Idle EXCEPT
       !.phase = "signed",
       !.req = Request(fn, ALICE, to, recipients, value, getPermitDeadline(now),
                       SignTypedData(ALICE,
                           createUSDCPermitMessage(ALICE, THIS, value, nonce,
                                                   getPermitDeadline(now))),
                       feeAmount)]

\* handleSubmit up to the signature: validateForm wants 0 < fee < total; the
\* holder signs the Permit message for the nonce the page has loaded.
HandleSubmit ==
    /\ last.phase = "idle"
    /\ nonces[ALICE] < MaxNonce
    /\ getPermitDeadline(now) \in Deadlines
    /\ \E to \in {BOB}, value \in 1..MaxValue, feeAmount \in 1..MaxValue,
          nonce \in 0..nonces[ALICE] :
           /\ feeAmount < value
           /\ last' = Signed("facilitateTransferWithPermit", to, <<>>, value,
                             feeAmount, nonce)
    /\ UNCHANGED <<chain, now, spent, relay>>

\* handleBulkSubmit up to the signature: totalValue is the sum of the
\* recipient amounts plus the fee.
HandleBulkSubmit ==
    /\ last.phase = "idle"
    /\ nonces[ALICE] < MaxNonce
    /\ getPermitDeadline(now) \in Deadlines
    /\ \E recipients \in RecipientLists, feeAmount \in Values,
          nonce \in 0..nonces[ALICE] :
           /\ Len(recipients) > 0
           /\ \A i \in 1..Len(recipients) : recipients[i] = [to |-> BOB, amount |-> 1]
           /\ SumAmounts(recipients) + feeAmount \in 2..MaxValue
           /\ last' = Signed("facilitateBulkTransferWithPermit", ZERO, recipients,
                             SumAmounts(recipients) + feeAmount, feeAmount, nonce)
    /\ UNCHANGED <<chain, now, spent, relay>>

FacilitateTransferWithPermit ==
    /\ CanCall
    /\ \E a \in SingleArgs :
          Call([a EXCEPT !.fn = "facilitateTransferWithPermit"])

FacilitateTransferWithNonStandardPermit ==
    /\ CanCall
    /\ \E a \in SingleArgs :
          Call([a EXCEPT !.fn = "facilitateTransferWithNonStandardPermit"])

FacilitateBulkTransferWithPermit ==
    /\ CanCall
    /\ \E a \in BulkArgs :
          Call([a EXCEPT !.fn = "facilitateBulkTransferWithPermit"])

FacilitateBulkTransferWithNonStandardPermit ==
    /\ CanCall
    /\ \E a \in BulkArgs :
          Call([a EXCEPT !.fn = "facilitateBulkTransferWithNonStandardPermit"])

\* The identical request is submitted again to the same entry point.
Resubmit ==
    /\ last.phase \in {"done", "old"}
    /\ Transact(last.req, last.okBefore \/ last.err = "ok",
                last.insufBefore \/ last.err = "InsufficientBalance",
                last.asSigned)

\* The observed request is dropped; the next one starts afresh.
Forget ==
    /\ last.phase # "idle"
    /\ last' = Idle
    /\ UNCHANGED <<chain, now, spent, relay>>

\* Once the chain moves on, what is kept of an executed request is the
\* request and whether a submission of it succeeded or lacked balance.
Aged ==
    IF last.phase # "done" THEN last
    ELSE [Idle EXCEPT !.phase = "old", !.req = last.req,
                      !.okBefore = last.okBefore \/ last.err = "ok",
                      !.insufBefore = last.insufBefore
                                        \/ last.err = "InsufficientBalance",
                      !.asSigned = last.asSigned]

\* block.timestamp advances
Tick ==
    /\ now < MaxTime
    /\ now' = now + 1
    /\ last' = Aged
    /\ UNCHANGED <<chain, spent, relay>>

\* A plain token transfer to the holder, outside the facilitator.
LedgerTransfer ==
    \E from \in {BOB}, to \in Holders :
        /\ balances[from] >= 1
        /\ balances' = [balances EXCEPT ![from] = @ - 1, ![to] = @ + 1]
        /\ last' = Aged
        /\ UNCHANGED <<allowance, nonces, usedPermits, feeCollector, now, spent, relay>>

Next ==
    \/ HandleSubmit
    \/ HandleBulkSubmit
    \/ FacilitateTransferWithPermit
    \/ FacilitateTransferWithNonStandardPermit
    \/ FacilitateBulkTransferWithPermit
    \/ FacilitateBulkTransferWithNonStandardPermit
    \/ Resubmit
    \/ Forget
    \/ Tick
    \/ LedgerTransfer

Spec == Init /\ [][Next]_vars

\* ====================================================== owner operations
\* The account that deployed the contract (Ownable's owner).
OWNER == "owner"

Callers == {OWNER, BOB}

\* the tokens rescueTokens can be pointed at: the ledger itself or any other
Tokens == {"usdc", "other"}

\* mutant: the update also empties the replay registry
updateFeeCollectorResetsRegistry(S, caller, newFeeCollector) ==
    IF caller # OWNER THEN [err |-> "OwnableUnauthorizedAccount", S |-> S]
    ELSE IF newFeeCollector = ZERO THEN [err |-> "InvalidFeeCollector", S |-> S]
    ELSE [err |-> "ok", S |-> [S EXCEPT !.fc = newFeeCollector, !.used = {}]]

\* updateFeeCollector(newFeeCollector) external onlyOwner
updateFeeCollector(S, caller, newFeeCollector) ==
    IF caller # OWNER THEN [err |-> "OwnableUnauthorizedAccount", S |-> S]
    ELSE IF newFeeCollector = ZERO THEN [err |-> "InvalidFeeCollector", S |-> S]
    ELSE [err |-> "ok", S |-> [S EXCEPT !.fc = newFeeCollector]]

\* rescueTokens(token, to, amount) external onlyOwner: safeTransfer out of the
\* contract's own balance.  The contract holds no balance on the ledger (it
\* is never credited), so on the ledger only amount 0 goes through; another
\* token is outside the state kept here.
rescueTokens(S, caller, token, to, amount) ==
    IF caller # OWNER THEN [err |-> "OwnableUnauthorizedAccount", S |-> S]
    ELSE IF to = ZERO THEN [err |-> "InvalidRecipient", S |-> S]
    ELSE IF token = "usdc" /\ amount > BalanceOf(S.L, THIS)
         THEN [err |-> "TransferReverted", S |-> S]
    ELSE [err |-> "ok", S |-> S]

\* A call of an owner operation, committed or reverted, put under observation
\* (req.owner holds the caller).
OwnerCall(fn, caller, out) ==
    LET post == Commit(ChainState, out)
    IN  /\ balances' = post.L.bal
        /\ allowance' = post.L.allow
        /\ nonces' = post.L.nonces
        /\ usedPermits' = post.used
        /\ feeCollector' = post.fc
        /\ last' = [Idle EXCEPT !.phase = "owner", !.req.fn = fn,
                                !.req.owner = caller, !.err = out.err]
        /\ UNCHANGED <<now, spent, relay>>

\* mutant: the modifier onlyOwner is missing
UpdateFeeCollectorByAnyone ==
    /\ last.phase = "idle"
    /\ \E caller \in Callers, newFeeCollector \in {ZERO, BOB, FEE} :
          OwnerCall("updateFeeCollector", caller,
                    updateFeeCollector(ChainState, OWNER, newFeeCollector))

UpdateFeeCollector ==
    /\ last.phase = "idle"
    /\ \E caller \in Callers, newFeeCollector \in {ZERO, BOB, FEE} :
          OwnerCall("updateFeeCollector", caller,
                    updateFeeCollector(ChainState, caller, newFeeCollector))

RescueTokens ==
    /\ last.phase = "idle"
    /\ \E caller \in Callers, token \in Tokens, to \in {ZERO, BOB}, amount \in 0..1 :
          OwnerCall("rescueTokens", caller,
                    rescueTokens(ChainState, caller, token, to, amount))

\* ------------------------------------- calls over a ledger that may refuse
\* Recipients of the calls: the null address, one the ledger credits and
\* two it refuses to credit.
PayoutRecipients == {ZERO, BOB, FROZEN, MUTE}

PayoutLists ==
    UNION {[1..n -> {[to |-> a, amount |-> 1] : a \in PayoutRecipients}] :
              n \in 1..MaxRecipients}

\* The holder's signed permit submitted to a single entry point.
PayoutSingle ==
    /\ last.phase = "signed"
    /\ \E fn \in SingleFns, to \in PayoutRecipients, feeAmount \in Values :
          Transact(Request(fn, ALICE, to, <<>>, last.req.value, last.req.deadline,
                           last.req.sig, feeAmount),
                   FALSE, FALSE, FALSE)

\* The holder's signed permit submitted to a bulk entry point.
PayoutBulk ==
    /\ last.phase = "signed"
    /\ \E fn \in BulkFns, recipients \in PayoutLists, feeAmount \in Values :
          Transact(Request(fn, ALICE, ZERO, recipients, last.req.value,
                           last.req.deadline, last.req.sig, feeAmount),
                   FALSE, FALSE, FALSE)

OpsNext ==
    \/ HandleSubmit
    \/ HandleBulkSubmit
    \/ PayoutSingle
    \/ PayoutBulk
    \/ Resubmit
    \/ Tick
    \/ UpdateFeeCollector
    \/ RescueTokens
    \/ Forget

SpecOps == Init /\ [][OpsNext]_vars

\* ================================================================ relayer
\* Submissions in flight carry one and the same request.
SameAsInFlight(req) ==
    \A j \in Slots : relay[j].pc # "free" => relay[j].req = req

\* A transaction enters the pool: it and every transaction waiting there are
\* from now on known to have been in flight together.
Sent(i, req) ==
    [j \in Slots |->
        IF j = i
        THEN [pc |-> "sent", req |-> req, answer |-> "none",
              raced |-> \E k \in Slots : relay[k].pc = "sent",
              sends |-> relay[i].sends + 1]
        ELSE IF relay[j].pc = "sent" THEN [relay[j] EXCEPT !.raced = TRUE]
        ELSE relay[j]]

Answered(i, req, answer) ==
    [relay EXCEPT ![i] = [pc |-> "answered", req |-> req, answer |-> answer,
                          raced |-> FALSE, sends |-> relay[i].sends]]

\* POST /api/execute-permit-transfer up to the moment the transaction is
\* sent: the deadline check, then estimateGas, which runs the call against
\* the chain as it is and throws when the call would revert.
PostExecutePermitTransfer(i) ==
    /\ last.phase = "signed"
    /\ last.req.fn \in SingleFns
    /\ relay[i].pc = "free"
    /\ LET req == [last.req EXCEPT !.fn = "facilitateTransferWithPermit"]
           est == Dispatch(ChainState, req, now)
       IN  /\ SameAsInFlight(req)
           /\ relay' = IF now > req.deadline
                        THEN Answered(i, req, "Permit deadline has expired")
                        ELSE IF est.err # "ok" THEN Answered(i, req, est.err)
                        ELSE Sent(i, req)
    /\ UNCHANGED <<chain, now, spent, last>>

\* Anyone sends a transaction calling one of the entry points with the signed
\* permit.
SendTransaction(i) ==
    /\ last.phase = "signed"
    /\ relay[i].pc = "free"
    /\ \E fn \in (IF last.req.fn \in SingleFns THEN SingleFns ELSE BulkFns) :
          /\ SameAsInFlight([last.req EXCEPT !.fn = fn])
          /\ relay' = Sent(i, [last.req EXCEPT !.fn = fn])
    /\ UNCHANGED <<chain, now, spent, last>>

\* mutant: a transaction that reverted is sent again
MinedAndSentAgain(i) ==
    /\ relay[i].pc = "sent"
    /\ Execute(relay[i].req)
    /\ relay' = IF Dispatch(ChainState, relay[i].req, now).err = "ok"
                THEN [relay EXCEPT ![i].pc = "answered", ![i].answer = "ok"]
                ELSE [relay EXCEPT ![i].sends = @ + 1]
    /\ UNCHANGED <<now, last>>

\* A sent transaction is mined: tx.wait() returns the receipt or throws; the
\* answer, success or error, ends the request.
Mined(i) ==
    /\ relay[i].pc = "sent"
    /\ Execute(relay[i].req)
    /\ relay' = [relay EXCEPT ![i].pc = "answered",
                              ![i].answer = Dispatch(ChainState, relay[i].req, now).err]
    /\ UNCHANGED <<now, last>>

RelayTick ==
    /\ now < MaxTime
    /\ now' = now + 1
    /\ UNCHANGED <<chain, spent, last, relay>>

RelayNext ==
    \/ HandleSubmit
    \/ HandleBulkSubmit
    \/ \E i \in Slots : PostExecutePermitTransfer(i)
    \/ \E i \in Slots : SendTransaction(i)
    \/ \E i \in Slots : Mined(i)
    \/ RelayTick

SpecRelay == Init /\ [][RelayNext]_vars

\* ============================================================ bulk form
\* addRecipient: "Limit to 50 recipients"
BatchCap == 50

\* the bulk form with its recipient rows
BulkForm(recipients) ==
    [Idle EXCEPT !.phase = "form", !.req.recipients = recipients]

\* addRecipient(): a row is appended unless the form already has BatchCap rows
addRecipient(recipients) ==
    IF Len(recipients) < BatchCap
    THEN Append(recipients, [to |-> BOB, amount |-> 1])
    ELSE recipients

\* The holder has enough for one unit more than BatchCap rows of one unit.
BatchInit ==
    /\ balances = [a \in Accounts |-> IF a = ALICE THEN BatchCap + 1 ELSE 0]
    /\ allowance = [h \in Holders |-> 0]
    /\ nonces = [h \in Holders |-> 0]
    /\ usedPermits = {}
    /\ feeCollector = FEE
    /\ now = 1
    /\ spent = {}
    /\ last = BulkForm(<<[to |-> BOB, amount |-> 1]>>)
    /\ relay = [i \in Slots |-> FreeSlot]

AddRecipient ==
    /\ last.phase = "form"
    /\ last' = BulkForm(addRecipient(last.req.recipients))
    /\ UNCHANGED <<chain, now, spent, relay>>

\* handleRecipientChange(0, 'amount', ...): the amount of the first row
HandleRecipientChange ==
    /\ last.phase = "form"
    /\ \E amount \in 1..2 :
          last' = BulkForm([last.req.recipients EXCEPT ![1].amount = amount])
    /\ UNCHANGED <<chain, now, spent, relay>>

\* handleBulkSubmit with the rows of the form and no fee: the holder signs
\* the permit for the sum of the rows.
HandleBulkSubmitForm ==
    /\ last.phase = "form"
    /\ last' = Signed("facilitateBulkTransferWithPermit", ZERO, last.req.recipients,
                      SumAmounts(last.req.recipients), 0, nonces[ALICE])
    /\ UNCHANGED <<chain, now, spent, relay>>

\* A bulk entry point is called with the signed permit: with the rows that
\* were signed for, or with as many rows of one unit as the permit's value.
BatchCall ==
    /\ last.phase = "signed"
    /\ \E fn \in BulkFns,
          recipients \in {last.req.recipients,
                          [i \in 1..last.req.value |-> [to |-> BOB, amount |-> 1]]} :
          Transact(Request(fn, ALICE, ZERO, recipients, last.req.value,
                           last.req.deadline, last.req.sig, 0),
                   FALSE, FALSE, recipients = last.req.recipients)

BatchNext ==
    \/ AddRecipient
    \/ HandleRecipientChange
    \/ HandleBulkSubmitForm
    \/ BatchCall

SpecBatch == BatchInit /\ [][BatchNext]_vars

\* ============================================================ amount codec
\* permitUtils.js: formatUSDCAmount is ethers.parseUnits and parseUSDCAmount
\* is ethers.formatUnits (ethers v6), each inside a try/catch that answers
\* '0'.  Strings are sequences of characters.
MaxChars == 4
MaxDecimals == 2
MaxAmount == 120

Digits == {"0", "1", "7"}
Chars == Digits \cup {".", "-", "x"}
Texts == UNION {[1..n -> Chars] : n \in 0..MaxChars}
Precisions == 0..MaxDecimals
DigitChars == <<"0", "1", "2", "3", "4", "5", "6", "7", "8", "9">>
AllDigits == {DigitChars[i] : i \in 1..10}

DigitOf(c) == (CHOOSE i \in 1..10 : DigitChars[i] = c) - 1

\* BigInt(s) of a string of digits; BigInt("") is 0
RECURSIVE DigitsToInt(_)
DigitsToInt(s) ==
    IF s = <<>> THEN 0
    ELSE 10 * DigitsToInt(SubSeq(s, 1, Len(s) - 1)) + DigitOf(s[Len(s)])

\* n.toString() of a non-negative integer
RECURSIVE NatToString(_)
NatToString(n) ==
    IF n < 10 THEN <<DigitChars[n + 1]>>
    ELSE Append(NatToString(n \div 10), DigitChars[(n % 10) + 1])

IntToString(n) == IF n < 0 THEN <<"-">> \o NatToString(0 - n) ELSE NatToString(n)

Zeros(n) == [i \in 1..n |-> "0"]

\* value.match(/^(-?)([0-9]*)\.?([0-9]*)$/): sign, whole and decimal part
FixedMatch(s) ==
    LET neg == s # <<>> /\ s[1] = "-"
        body == IF neg THEN Tail(s) ELSE s
        dots == {i \in 1..Len(body) : body[i] = "."}
        dot == IF dots = {} THEN Len(body) + 1 ELSE CHOOSE i \in dots : TRUE
    IN  [ok |-> /\ \A i \in 1..Len(body) : body[i] \in AllDigits \cup {"."}
                /\ Cardinality(dots) <= 1,
         neg |-> neg,
         whole |-> SubSeq(body, 1, dot - 1),
         decimal |-> SubSeq(body, dot + 1, Len(body))]

\* ethers.parseUnits(value, decimals) = FixedNumber.fromString(value).value:
\* throws on a string that is not a decimal number or has no digit, and on
\* non-zero digits beyond `decimals`; a leading '-' is accepted.
parseUnits(value, decimals) ==
    LET m == FixedMatch(value)
        padded == m.decimal \o Zeros(IF Len(m.decimal) < decimals
                                     THEN decimals - Len(m.decimal) ELSE 0)
        n == DigitsToInt(m.whole \o SubSeq(padded, 1, decimals))
    IN  IF ~m.ok \/ Len(m.whole) + Len(m.decimal) = 0
        THEN [threw |-> TRUE, value |-> 0]
        ELSE IF \E i \in (decimals + 1)..Len(padded) : padded[i] # "0"
        THEN [threw |-> TRUE, value |-> 0]
        ELSE [threw |-> FALSE, value |-> IF m.neg THEN 0 - n ELSE n]

\* formatUSDCAmount(amount, decimals): the smallest-unit integer as a string,
\* '0' when parseUnits throws
formatUSDCAmount(amount, decimals) ==
    LET r == parseUnits(amount, decimals)
    IN  IF r.threw THEN <<"0">> ELSE IntToString(r.value)

\* the string without its leading zeros, one digit kept before the point
RECURSIVE TrimWhole(_)
TrimWhole(s) ==
    IF Len(s) >= 2 /\ s[1] = "0" /\ s[2] # "." THEN TrimWhole(Tail(s)) ELSE s

\* the string without its trailing zeros, one digit kept after the point
RECURSIVE TrimDecimal(_)
TrimDecimal(s) ==
    IF Len(s) >= 2 /\ s[Len(s)] = "0" /\ s[Len(s) - 1] # "."
    THEN TrimDecimal(SubSeq(s, 1, Len(s) - 1)) ELSE s

\* mutant: the digits are not padded to a whole digit before the point is set
formatUnitsNoPad(value, decimals) ==
    LET mag == IF value < 0 THEN 0 - value ELSE value
        str == NatToString(mag)
        index == IF Len(str) > decimals THEN Len(str) - decimals ELSE 0
        s == IF decimals = 0 THEN str
             ELSE TrimDecimal(TrimWhole(SubSeq(str, 1, index) \o <<".">>
                                        \o SubSeq(str, index + 1, Len(str))))
    IN  IF value < 0 THEN <<"-">> \o s ELSE s

\* ethers.formatUnits(value, decimals): the digits padded with zeros to
\* decimals + 1 places, the point set `decimals` places from the right,
\* leading and trailing zeros dropped but one kept on each side of the
\* point; no point at all when decimals = 0.
formatUnits(value, decimals) ==
    LET mag == IF value < 0 THEN 0 - value ELSE value
        raw == NatToString(mag)
        str == Zeros(IF Len(raw) <= decimals THEN decimals + 1 - Len(raw) ELSE 0) \o raw
        index == Len(str) - decimals
        s == IF decimals = 0 THEN str
             ELSE TrimDecimal(TrimWhole(SubSeq(str, 1, index) \o <<".">>
                                        \o SubSeq(str, index + 1, Len(str))))
    IN  IF value < 0 THEN <<"-">> \o s ELSE s

\* getBigInt(amount.toString()): BigInt of an integer string, throws otherwise
IsIntegerString(s) ==
    LET body == IF s # <<>> /\ s[1] = "-" THEN Tail(s) ELSE s
    IN  body # <<>> /\ \A i \in 1..Len(body) : body[i] \in AllDigits

StringToInt(s) ==
    IF s[1] = "-" THEN 0 - DigitsToInt(Tail(s)) ELSE DigitsToInt(s)

\* parseUSDCAmount(amount, decimals): the decimal string of a smallest-unit
\* integer given as a string, '0' when formatUnits throws
parseUSDCAmount(amount, decimals) ==
    IF IsIntegerString(amount)
    THEN formatUnits(StringToInt(amount), decimals)
    ELSE <<"0">>

\* ------------------------------------------------ the codec, step by step
Codec(step, text, decimals, out, back) ==
    [phase |-> "codec", step |-> step, text |-> text, decimals |-> decimals,
     out |-> out, back |-> back]

\* An amount as the form holds it (a typed text) or as the ledger answers it
\* (the string of an integer), with the token's decimals.
CodecInit ==
    /\ balances = [a \in Accounts |-> IF a = ALICE THEN InitBalance ELSE 0]
    /\ allowance = [h \in Holders |-> 0]
    /\ nonces = [h \in Holders |-> 0]
    /\ usedPermits = {}
    /\ feeCollector = FEE
    /\ now = 1
    /\ spent = {}
    /\ relay = [i \in Slots |-> FreeSlot]
    /\ \E decimals \in Precisions :
          \/ \E text \in Texts : last = Codec("typed", text, decimals, <<>>, <<>>)
          \/ \E x \in 0..MaxAmount :
                last = Codec("read", IntToString(x), decimals, <<>>, <<>>)

FormatUSDCAmount ==
    /\ last.phase = "codec"
    /\ last.step = "typed"
    /\ last' = [last EXCEPT !.step = "formatted",
                            !.out = formatUSDCAmount(last.text, last.decimals)]
    /\ UNCHANGED <<chain, now, spent, relay>>

ParseFormatted ==
    /\ last.phase = "codec"
    /\ last.step = "formatted"
    /\ last' = [last EXCEPT !.step = "formatted-parsed",
                            !.back = parseUSDCAmount(last.out, last.decimals)]
    /\ UNCHANGED <<chain, now, spent, relay>>

ParseUSDCAmount ==
    /\ last.phase = "codec"
    /\ last.step = "read"
    /\ last' = [last EXCEPT !.step = "parsed",
                            !.out = parseUSDCAmount(last.text, last.decimals)]
    /\ UNCHANGED <<chain, now, spent, relay>>

FormatParsed ==
    /\ last.phase = "codec"
    /\ last.step = "parsed"
    /\ last' = [last EXCEPT !.step = "parsed-formatted",
                            !.back = formatUSDCAmount(last.out, last.decimals)]
    /\ UNCHANGED <<chain, now, spent, relay>>

CodecNext ==
    \/ FormatUSDCAmount
    \/ ParseFormatted
    \/ ParseUSDCAmount
    \/ FormatParsed

SpecCodec == CodecInit /\ [][CodecNext]_vars

RECURSIVE Pow10(_)
Pow10(n) == IF n = 0 THEN 1 ELSE 10 * Pow10(n - 1)

\* ======================================================== the single form
\* FacilitateTransfer.jsx, single tab: the page loads its contract info once
\* (useEffect on the wallet address) and again after a confirmed transaction;
\* handleSubmit validates the typed fields, converts the amounts, builds and
\* signs the permit message from the loaded info and posts it to the relayer.
MaxTyped == 3
MaxSubmits == 1
PageBalance == 10 * MaxAmount

TypedTexts == UNION {[1..n -> Chars] : n \in 0..MaxTyped}
FeeTexts == {<<"1">>, <<"1", "x">>}
TokenNames == {"USD Coin", ""}
TokenVersion == "2"
TestToken == "Test Token"
VersionOne == "1"
ReadResults == {"fulfilled", "rejected"}

\* the longest prefix of s made of digits
RECURSIVE DigitPrefix(_)
DigitPrefix(s) ==
    IF s # <<>> /\ s[1] \in AllDigits THEN <<s[1]>> \o DigitPrefix(Tail(s)) ELSE <<>>

\* parseFloat(s): the number of the longest prefix that is a decimal literal
\* (sign, digits, point, digits), in units of 10^-MaxChars; NaN if none
parseFloat(s) ==
    LET neg == s # <<>> /\ s[1] = "-"
        body == IF neg THEN Tail(s) ELSE s
        whole == DigitPrefix(body)
        rest == SubSeq(body, Len(whole) + 1, Len(body))
        decimal == IF rest # <<>> /\ rest[1] = "." THEN DigitPrefix(Tail(rest)) ELSE <<>>
        mag == DigitsToInt(whole) * Pow10(MaxChars)
                 + DigitsToInt(SubSeq(decimal \o Zeros(MaxChars), 1, MaxChars))
    IN  [nan |-> Len(whole) + Len(decimal) = 0,
         v |-> IF neg THEN 0 - mag ELSE mag]

\* validateAmount(amount): parseFloat(amount) is a number above 0
validateAmount(amount) == ~parseFloat(amount).nan /\ parseFloat(amount).v > 0

\* validateAddress(address) for the addresses the form can hold
validateAddress(address) == address \in Addresses

\* validateForm()
validateForm(form, info) ==
    /\ validateAddress(form.ownerAddress)
    /\ validateAddress(form.recipientAddress)
    /\ validateAmount(form.totalAmount)
    /\ parseFloat(form.totalAmount).v <= parseFloat(info.userBalance).v
    /\ validateAmount(form.feeAmount)
    /\ parseFloat(form.feeAmount).v < parseFloat(form.totalAmount).v

\* useState of contractInfo
NoContractInfo ==
    [decimals |-> 18, userBalance |-> <<"0">>, nonce |-> <<"0">>,
     tokenName |-> "", tokenVersion |-> VersionOne]

\* fetchContractInfo(): decimals, balance and nonce as read; the name and the
\* version as read, 'Test Token' and '1' when the read is rejected or the
\* value is empty
fetchContractInfo(token, balance, nonce, nameRead, versionRead) ==
    LET tokenName == IF nameRead = "fulfilled" THEN token.name ELSE TestToken
        tokenVersion == IF versionRead = "fulfilled" THEN token.version ELSE VersionOne
    IN  [decimals |-> token.decimals,
         userBalance |-> parseUSDCAmount(IntToString(balance), token.decimals),
         nonce |-> IntToString(nonce),
         tokenName |-> IF tokenName = "" THEN TestToken ELSE tokenName,
         tokenVersion |-> IF tokenVersion = "" THEN VersionOne ELSE tokenVersion]

\* the domain of createUSDCPermitMessage
PermitDomain(tokenName, tokenVersion) ==
    [name |-> IF tokenName = "" THEN TestToken ELSE tokenName,
     version |-> IF tokenVersion = "" THEN VersionOne ELSE tokenVersion]

\* the domain the token's permit verifies signatures under
TokenDomain(token) == [name |-> token.name, version |-> token.version]

NoMessage ==
    [domain |-> PermitDomain("", ""), value |-> <<>>, nonce |-> <<>>,
     feeAmount |-> <<>>, typed |-> <<>>, typedFee |-> <<>>, ledgerNonce |-> 0]

EmptyForm(owner) ==
    [ownerAddress |-> owner, recipientAddress |-> "", totalAmount |-> <<>>,
     feeAmount |-> <<>>]

Page(step, token, info, form, msg, req, calls, answer) ==
    [phase |-> "page", step |-> step, token |-> token, info |-> info,
     form |-> form, msg |-> msg, req |-> req, calls |-> calls, answer |-> answer]

PageInit ==
    /\ balances = [a \in Accounts |-> IF a = ALICE THEN PageBalance ELSE 0]
    /\ allowance = [h \in Holders |-> 0]
    /\ nonces = [h \in Holders |-> 0]
    /\ usedPermits = {}
    /\ feeCollector = FEE
    /\ now = 1
    /\ spent = {}
    /\ relay = [i \in Slots |-> FreeSlot]
    /\ \E name \in TokenNames, decimals \in Precisions :
          last = Page("mounted",
                      [name |-> name, version |-> TokenVersion, decimals |-> decimals],
                      NoContractInfo, EmptyForm(ALICE), NoMessage, NoRequest, 0, "none")

\* useEffect(address): the wallet is connected, the info is fetched
FetchContractInfo ==
    /\ last.phase = "page"
    /\ last.step = "mounted"
    /\ \E nameRead \in ReadResults, versionRead \in ReadResults :
          last' = [last EXCEPT !.step = "ready",
                               !.info = fetchContractInfo(last.token, balances[ALICE],
                                                          nonces[ALICE], nameRead, versionRead)]
    /\ UNCHANGED <<chain, now, spent, relay>>

\* handleInputChange: an empty field of the form is filled in
HandleInputChange ==
    /\ last.phase = "page"
    /\ last.step = "ready"
    /\ last.calls < MaxSubmits
    /\ \/ /\ last.form.totalAmount = <<>>
          /\ \E text \in TypedTexts : last' = [last EXCEPT !.form.totalAmount = text]
       \/ /\ last.form.feeAmount = <<>>
          /\ \E text \in FeeTexts : last' = [last EXCEPT !.form.feeAmount = text]
       \/ /\ last.form.recipientAddress = ""
          /\ \E to \in {BOB} : last' = [last EXCEPT !.form.recipientAddress = to]
    /\ UNCHANGED <<chain, now, spent, relay>>

\* A permit of the holder is consumed through another session: the holder's
\* nonce on the ledger advances; the page is not told.
PermitElsewhere ==
    /\ last.phase = "page"
    /\ last.step = "ready"
    /\ nonces[ALICE] < MaxNonce
    /\ nonces' = [nonces EXCEPT ![ALICE] = @ + 1]
    /\ UNCHANGED <<balances, allowance, usedPermits, feeCollector, now, spent,
                   last, relay>>

\* handleSubmit up to the call of the relayer: the amounts are converted with
\* the loaded decimals, the message carries the loaded nonce, name and
\* version; the wallet signs it under that domain, and a signature made under
\* another domain than the token's is none the token accepts.
HandleSubmitPage ==
    /\ last.phase = "page"
    /\ last.step = "ready"
    /\ last.calls < MaxSubmits
    /\ validateForm(last.form, last.info)
    /\ getPermitDeadline(now) \in Deadlines
    /\ LET deadline == getPermitDeadline(now)
           value == formatUSDCAmount(last.form.totalAmount, last.info.decimals)
           feeAmountFormatted == formatUSDCAmount(last.form.feeAmount, last.info.decimals)
           domain == PermitDomain(last.info.tokenName, last.info.tokenVersion)
           message == createUSDCPermitMessage(last.form.ownerAddress, THIS,
                                              StringToInt(value),
                                              StringToInt(last.info.nonce), deadline)
           signature == IF domain = TokenDomain(last.token)
                        THEN SignTypedData(ALICE, message) ELSE BadSig
       IN  last' = [last EXCEPT
                      !.step = "sent",
                      !.msg = [domain |-> domain, value |-> value,
                               nonce |-> last.info.nonce,
                               feeAmount |-> feeAmountFormatted,
                               typed |-> last.form.totalAmount,
                               typedFee |-> last.form.feeAmount,
                               ledgerNonce |-> nonces[ALICE]],
                      !.req = Request("facilitateTransferWithPermit",
                                      last.form.ownerAddress,
                                      last.form.recipientAddress, <<>>,
                                      StringToInt(value), deadline, signature,
                                      StringToInt(feeAmountFormatted)),
                      !.calls = @ + 1,
                      !.answer = "none"]
    /\ UNCHANGED <<chain, now, spent, relay>>

\* The relayer's answer: success after the transaction is mined (the form is
\* emptied and the info fetched again), or an error (nothing was mined).
RelayerAnswers ==
    /\ last.phase = "page"
    /\ last.step = "sent"
    /\ LET out == Dispatch(ChainState, last.req, now)
       IN  /\ Execute(last.req)
           /\ IF out.err = "ok"
              THEN \E nameRead \in ReadResults, versionRead \in ReadResults :
                      last' = [last EXCEPT
                                 !.step = "ready",
                                 !.answer = "ok",
                                 !.form = EmptyForm(last.form.ownerAddress),
                                 !.info = fetchContractInfo(last.token, balances'[ALICE],
                                                            nonces'[ALICE], nameRead,
                                                            versionRead)]
              ELSE last' = [last EXCEPT !.step = "ready", !.answer = out.err]
    /\ UNCHANGED <<now, relay>>

PageNext ==
    \/ FetchContractInfo
    \/ HandleInputChange
    \/ PermitElsewhere
    \/ HandleSubmitPage
    \/ RelayerAnswers

SpecPage == PageInit /\ [][PageNext]_vars

\* ================================================= the relayer's validation
\* POST /api/execute-permit-transfer, lines 252-406: the fields of the JSON
\* body are absent (undefined), strings or numbers.
Undefined == [t |-> "undefined", v |-> 0]
JStr(s) == [t |-> "string", v |-> s]
JNum(n) == [t |-> "number", v |-> n]

\* !x of JavaScript: undefined, 0 and '' are falsy
Falsy(x) == x = Undefined \/ x = JNum(0) \/ x = JStr("")

\* process.env: CHAIN_ID, FACILITATOR_ADDRESS, USDC_ADDRESS
EnvChainId == 84532
EnvFacilitator == "0xFAC"
EnvUsdc == "0xDC"

\* s.toLowerCase() of the address strings used here
toLowerCase(s) ==
    IF s = "0xFAC" THEN "0xfac" ELSE IF s = "0xDC" THEN "0xdc" ELSE s

Body(owner, to, value, deadline, v, r, s, feeAmount, chainId, facilitatorAddress, tokenAddress) ==
    [owner |-> owner, to |-> to, value |-> value, deadline |-> deadline,
     v |-> v, r |-> r, s |-> s, feeAmount |-> feeAmount, chainId |-> chainId,
     facilitatorAddress |-> facilitatorAddress, tokenAddress |-> tokenAddress]

Bodies ==
    {Body(owner, to, value, deadline, v, r, s, feeAmount, chainId, fac, tok) :
        owner \in {Undefined, JStr(ALICE)},
        to \in {Undefined, JStr(BOB)},
        value \in {Undefined, JStr(<<"2">>)},
        deadline \in {Undefined} \cup {JNum(d) : d \in 0..MaxTime},
        v \in {Undefined, JNum(27)},
        r \in {Undefined, JStr("r")},
        s \in {Undefined, JStr("s")},
        feeAmount \in {Undefined, JStr(<<"0">>), JNum(0), JStr(<<"1">>)},
        chainId \in {Undefined, JNum(EnvChainId), JNum(1)},
        fac \in {Undefined, JStr("0xfac"), JStr("0xbad")},
        tok \in {Undefined, JStr("0xDC"), JStr("0xbad")}}

Answer(status, error) == [status |-> status, error |-> error]

\* Lines 279-317: the checks before the transaction is prepared.  Status 0
\* stands for "no answer yet, go on".  Calling toLowerCase on an absent
\* address throws, and the outer catch answers 500.
ValidateBody(b, currentTimestamp) ==
    IF \/ Falsy(b.owner) \/ Falsy(b.to) \/ Falsy(b.value) \/ Falsy(b.deadline)
       \/ b.v = Undefined \/ Falsy(b.r) \/ Falsy(b.s) \/ Falsy(b.feeAmount)
    THEN Answer(400, "Missing required parameters")
    ELSE IF b.chainId # JNum(EnvChainId)
    THEN Answer(400, "Invalid chain ID")
    ELSE IF b.facilitatorAddress.t # "string"
    THEN Answer(500, "TypeError")
    ELSE IF toLowerCase(b.facilitatorAddress.v) # toLowerCase(EnvFacilitator)
    THEN Answer(400, "Invalid facilitator contract address")
    ELSE IF b.tokenAddress.t # "string"
    THEN Answer(500, "TypeError")
    ELSE IF toLowerCase(b.tokenAddress.v) # toLowerCase(EnvUsdc)
    THEN Answer(400, "Invalid token address")
    ELSE IF currentTimestamp > b.deadline.v
    THEN Answer(400, "Permit deadline has expired")
    ELSE Answer(0, "none")

\* the call the relayer makes for a body: r and s stand for the holder's
\* signature of the permit for the body's value and deadline
BodyRequest(b) ==
    LET value == IF b.value.t = "number" THEN b.value.v ELSE StringToInt(b.value.v)
        fee == IF b.feeAmount.t = "number" THEN b.feeAmount.v
               ELSE StringToInt(b.feeAmount.v)
    IN  Request("facilitateTransferWithPermit", b.owner.v, b.to.v, <<>>, value,
                b.deadline.v,
                SignTypedData(ALICE, createUSDCPermitMessage(ALICE, THIS, value, 0,
                                                             b.deadline.v)),
                fee)

Api(step, body, answer, estimates, sends) ==
    [phase |-> "api", step |-> step, body |-> body, answer |-> answer,
     estimates |-> estimates, sends |-> sends]

ApiInit ==
    /\ balances = [a \in Accounts |-> IF a = ALICE THEN InitBalance ELSE 0]
    /\ allowance = [h \in Holders |-> 0]
    /\ nonces = [h \in Holders |-> 0]
    /\ usedPermits = {}
    /\ feeCollector = FEE
    /\ now = 2
    /\ spent = {}
    /\ relay = [i \in Slots |-> FreeSlot]
    /\ \E b \in Bodies : last = Api("received", b, Answer(0, "none"), 0, 0)

\* lines 254-317
ApiValidate ==
    /\ last.phase = "api"
    /\ last.step = "received"
    /\ LET a == ValidateBody(last.body, now)
       IN  last' = [last EXCEPT !.step = IF a.status = 0 THEN "validated" ELSE "answered",
                                !.answer = a]
    /\ UNCHANGED <<chain, now, spent, relay>>

\* lines 322-335 and the catch 370-397: estimateGas runs the call against the
\* chain and throws when it would revert
ApiEstimateGas ==
    /\ last.phase = "api"
    /\ last.step = "validated"
    /\ LET est == Dispatch(ChainState, BodyRequest(last.body), now)
       IN  last' = [last EXCEPT
                      !.estimates = @ + 1,
                      !.step = IF est.err = "ok" THEN "estimated" ELSE "answered",
                      !.answer = IF est.err = "ok" THEN @ ELSE Answer(500, est.err)]
    /\ UNCHANGED <<chain, now, spent, relay>>

\* lines 337-368 and the catch: the transaction is sent and mined
ApiSendTransaction ==
    /\ last.phase = "api"
    /\ last.step = "estimated"
    /\ LET out == Dispatch(ChainState, BodyRequest(last.body), now)
       IN  /\ Execute(BodyRequest(last.body))
           /\ last' = [last EXCEPT
                          !.sends = @ + 1,
                          !.step = "answered",
                          !.answer = IF out.err = "ok" THEN Answer(200, "none")
                                     ELSE Answer(500, out.err)]
    /\ UNCHANGED <<now, relay>>

ApiNext ==
    \/ ApiValidate
    \/ ApiEstimateGas
    \/ ApiSendTransaction

SpecApi == ApiInit /\ [][ApiNext]_vars

\* ======================================================= re-entrancy guard
\* The four entry points are `external nonReentrant` (ReentrancyGuard of
\* OpenZeppelin): the modifier reverts when the status is ENTERED, sets it to
\* ENTERED for the body and back to NOT_ENTERED after it.  While the body
\* waits for the ledger's permit or transferFrom, the ledger's code runs and
\* may call the facilitator back.
MaxAttempts == 2

\* mutant: the modifier lets every call in
nonReentrantBeforeUnguarded(status) == [err |-> "ok", status |-> "ENTERED"]

nonReentrantBefore(status) ==
    IF status = "ENTERED"
    THEN [err |-> "ReentrancyGuardReentrantCall", status |-> status]
    ELSE [err |-> "ok", status |-> "ENTERED"]

nonReentrantAfter(status) == "NOT_ENTERED"

NoNested == [fn |-> "none", err |-> "none", at |-> "none"]

\* status: the guard; depth: the facilitate calls that are executing; req: the
\* outer call; calls: the ledger calls of its body still to be made, the
\* first being the one the ledger is executing; entry: the chain as the outer
\* call found it; nested: the last call the ledger made back.
Guard(status, depth, req, calls, entry, nested, attempts) ==
    [phase |-> "guard", status |-> status, depth |-> depth, req |-> req,
     calls |-> calls, entry |-> entry, nested |-> nested, attempts |-> attempts]

GuardInit ==
    /\ balances = [a \in Accounts |-> IF a = ALICE THEN InitBalance
                                      ELSE IF a = BOB THEN 1 ELSE 0]
    /\ allowance = [h \in Holders |-> 0]
    /\ nonces = [h \in Holders |-> 0]
    /\ usedPermits = {}
    /\ feeCollector = FEE
    /\ now = 1
    /\ spent = {}
    /\ relay = [i \in Slots |-> FreeSlot]
    /\ last = Guard("NOT_ENTERED", 0, NoRequest, <<>>, ChainState, NoNested, 0)

\* the ledger calls of the body of a call: permit, then one transferFrom for
\* each movement
LedgerCalls(req) ==
    <<"permit">> \o
    [i \in 1..Len(IF req.fn \in SingleFns
                  THEN SingleMoves(req.to, req.value, req.feeAmount, feeCollector)
                  ELSE BulkMoves(req.recipients, req.feeAmount, feeCollector))
        |-> "transferFrom"]

\* A transaction calls an entry point with a permit the holder has signed
\* for the current nonce; the body runs up to its first ledger call.
EnterFacilitate ==
    /\ last.phase = "guard"
    /\ last.depth = 0
    /\ nonces[ALICE] < MaxNonce
    /\ \E fn \in SingleFns \cup BulkFns, value \in 1..InitBalance, feeAmount \in 0..1 :
          LET deadline == getPermitDeadline(now)
              req == Request(fn, ALICE, BOB, <<[to |-> BOB, amount |-> value - feeAmount]>>,
                             value, deadline,
                             SignTypedData(ALICE,
                                 createUSDCPermitMessage(ALICE, THIS, value,
                                                         nonces[ALICE], deadline)),
                             feeAmount)
              g == nonReentrantBefore(last.status)
          IN  /\ feeAmount < value
              /\ balances[ALICE] >= value
              /\ g.err = "ok"
              /\ Dispatch(ChainState, req, now).err = "ok"
              /\ last' = Guard(g.status, 1, req, LedgerCalls(req), ChainState,
                               NoNested, 0)
    /\ UNCHANGED <<chain, now, spent, relay>>

\* While the ledger executes a call of the body, its code calls an entry
\* point of the facilitator: the modifier refuses it, or the call runs to
\* its end inside the outer one.
ReenterFacilitate ==
    /\ last.phase = "guard"
    /\ last.depth >= 1
    /\ last.calls # <<>>
    /\ last.attempts < MaxAttempts
    /\ \E fn \in SingleFns \cup BulkFns :
          LET nreq == [last.req EXCEPT !.fn = fn]
              g == nonReentrantBefore(last.status)
          IN  IF g.err = "ok"
              THEN /\ Execute(nreq)
                   /\ last' = [last EXCEPT
                                 !.depth = @ + 1,
                                 !.nested = [fn |-> fn, err |-> "admitted",
                                             at |-> last.calls[1]],
                                 !.attempts = @ + 1]
              ELSE /\ UNCHANGED <<chain, spent>>
                   /\ last' = [last EXCEPT
                                 !.nested = [fn |-> fn, err |-> g.err,
                                             at |-> last.calls[1]],
                                 !.attempts = @ + 1]
    /\ UNCHANGED <<now, relay>>

\* The ledger call of the body returns; the body goes on to the next one.
LedgerReturns ==
    /\ last.phase = "guard"
    /\ last.depth >= 1
    /\ Len(last.calls) > 1
    /\ last' = [last EXCEPT !.calls = Tail(@)]
    /\ UNCHANGED <<chain, now, spent, relay>>

\* The last ledger call returns, the event is emitted, the modifier resets
\* the status and the transaction is committed.
ReturnFromFacilitate ==
    /\ last.phase = "guard"
    /\ last.depth >= 1
    /\ Len(last.calls) = 1
    /\ Execute(last.req)
    /\ last' = [last EXCEPT !.status = nonReentrantAfter(@), !.depth = 0,
                            !.calls = <<>>]
    /\ UNCHANGED <<now, relay>>

GuardNext ==
    \/ EnterFacilitate
    \/ ReenterFacilitate
    \/ LedgerReturns
    \/ ReturnFromFacilitate

SpecGuard == GuardInit /\ [][GuardNext]_vars

\* ==================================================== client and routes
\* api.js posts a single request to /execute-permit-transfer and a bulk
\* request to /execute-bulk-permit-transfer; the server (part_001, 207-454)
\* registers POST /api/execute-permit-transfer, GET /api/health and
\* GET /api/transaction/:txHash, and answers every other request 404.
SinglePath == "/api/execute-permit-transfer"
BulkPath == "/api/execute-bulk-permit-transfer"

\* the handler express finds for a request
Router(method, path) ==
    IF method = "POST" /\ path = "/api/execute-permit-transfer"
    THEN "execute-permit-transfer"
    ELSE IF method = "GET" /\ path = "/api/health" THEN "health"
    ELSE IF method = "GET" /\ path = "/api/transaction/:txHash" THEN "transaction"
    ELSE "none"

Http(step, path, req, status, called, sends) ==
    [phase |-> "http", step |-> step, path |-> path, req |-> req,
     status |-> status, called |-> called, sends |-> sends]

\* apiService.executePermitTransfer(permitData)
ExecutePermitTransfer ==
    /\ last.phase = "signed"
    /\ last.req.fn \in SingleFns
    /\ last' = Http("posted", SinglePath, last.req, 0, "none", 0)
    /\ UNCHANGED <<chain, now, spent, relay>>

\* apiService.executeBulkPermitTransfer(permitData)
ExecuteBulkPermitTransfer ==
    /\ last.phase = "signed"
    /\ last.req.fn \in BulkFns
    /\ last' = Http("posted", BulkPath, last.req, 0, "none", 0)
    /\ UNCHANGED <<chain, now, spent, relay>>

\* express looks the route up: no route, 404
RouteRequest ==
    /\ last.phase = "http"
    /\ last.step = "posted"
    /\ last' = IF Router("POST", last.path) = "none"
               THEN [last EXCEPT !.step = "answered", !.status = 404]
               ELSE [last EXCEPT !.step = "routed"]
    /\ UNCHANGED <<chain, now, spent, relay>>

\* the handler of POST /api/execute-permit-transfer for a complete body: the
\* deadline check, estimateGas, then the one call of
\* facilitateTransferWithPermit and its receipt
HandleExecutePermitTransfer ==
    /\ last.phase = "http"
    /\ last.step = "routed"
    /\ LET req == [last.req EXCEPT !.fn = "facilitateTransferWithPermit"]
           est == Dispatch(ChainState, req, now)
       IN  IF now > req.deadline
           THEN /\ last' = [last EXCEPT !.step = "answered", !.status = 400]
                /\ UNCHANGED <<chain, spent>>
           ELSE IF est.err # "ok"
           THEN /\ last' = [last EXCEPT !.step = "answered", !.status = 500]
                /\ UNCHANGED <<chain, spent>>
           ELSE /\ Execute(req)
                /\ last' = [last EXCEPT !.step = "answered", !.status = 200,
                                        !.called = req.fn, !.sends = @ + 1]
    /\ UNCHANGED <<now, relay>>

HttpNext ==
    \/ HandleSubmit
    \/ HandleBulkSubmit
    \/ ExecutePermitTransfer
    \/ ExecuteBulkPermitTransfer
    \/ RouteRequest
    \/ HandleExecutePermitTransfer
    \/ Forget
    \/ Tick
    \/ LedgerTransfer

SpecHttp == Init /\ [][HttpNext]_vars

\* ========================================================== the bulk form
\* FacilitateTransfer.jsx, bulk tab: rows of typed address and amount, a typed
\* fee; validateBulkForm and handleBulkSubmit add the amounts up as JavaScript
\* numbers, convert the total and every typed amount to smallest units one by
\* one, and sign and post the result.  A number is a record: NaN, or a value
\* in units of 10^-MaxChars.  The amounts typed here are whole numbers or not
\* numbers at all, the values on which the addition of doubles is exact.
AmountTexts == {<<"1">>, <<"7">>, <<"1", "x">>, <<"x">>, <<"-", "1">>}
NaN == [nan |-> TRUE, v |-> 0]
JsNumber(v) == [nan |-> FALSE, v |-> v]

\* a + b on numbers
JsAdd(a, b) == IF a.nan \/ b.nan THEN NaN ELSE JsNumber(a.v + b.v)

\* parseFloat(text || 0)
ParseFloatOrZero(text) ==
    IF text = <<>> THEN JsNumber(0)
    ELSE IF parseFloat(text).nan THEN NaN ELSE JsNumber(parseFloat(text).v)

\* Number.prototype.toString of a number
NumberToString(n) ==
    IF n.nan THEN <<"N", "a", "N">>
    ELSE IF n.v % Pow10(MaxChars) = 0 THEN IntToString(n.v \div Pow10(MaxChars))
    ELSE formatUnits(n.v, MaxChars)

\* calculateTotalRecipientAmount(recipients)
RECURSIVE calculateTotalRecipientAmount(_)
calculateTotalRecipientAmount(recipients) ==
    IF recipients = <<>> THEN JsNumber(0)
    ELSE JsAdd(calculateTotalRecipientAmount(SubSeq(recipients, 1, Len(recipients) - 1)),
               ParseFloatOrZero(recipients[Len(recipients)].amount))

\* formatRecipientsForContract(recipients, decimals)
formatRecipientsForContract(recipients, decimals) ==
    [i \in 1..Len(recipients) |->
        [to |-> recipients[i].address,
         amount |-> formatUSDCAmount(recipients[i].amount, decimals)]]

\* validateBulkTransferData(recipients, totalAmount, feeAmount, userBalance):
\* no error found
validateBulkTransferData(recipients, totalAmount, feeAmount, userBalance) ==
    LET totalWithFee == JsAdd(calculateTotalRecipientAmount(recipients),
                              ParseFloatOrZero(feeAmount))
        total == ParseFloatOrZero(totalAmount)
        balance == ParseFloatOrZero(userBalance)
        diff == IF total.v >= totalWithFee.v THEN total.v - totalWithFee.v
                ELSE totalWithFee.v - total.v
    IN  /\ Len(recipients) > 0
        /\ \A i \in 1..Len(recipients) :
              /\ validateAddress(recipients[i].address)
              /\ validateAmount(recipients[i].amount)
        /\ ~(~total.nan /\ ~totalWithFee.nan /\ diff * 1000000 > Pow10(MaxChars))
        /\ ~(~total.nan /\ ~balance.nan /\ total.v > balance.v)

\* validateBulkForm(): the deadline field keeps its initial 30 minutes
validateBulkForm(form, info) ==
    LET totalAmount == JsAdd(calculateTotalRecipientAmount(form.recipients),
                             ParseFloatOrZero(form.feeAmount))
    IN  /\ validateBulkTransferData(form.recipients, NumberToString(totalAmount),
                                    form.feeAmount, info.userBalance)
        /\ validateAddress(form.ownerAddress)

EmptyRow == [address |-> "", amount |-> <<>>]
EmptyBulkForm(owner) ==
    [ownerAddress |-> owner, recipients |-> <<EmptyRow>>, feeAmount |-> <<>>]

NoPermitData ==
    [owner |-> "", recipients |-> <<>>, totalValue |-> <<>>, deadline |-> 0,
     feeAmount |-> <<>>, facilitatorAddress |-> ""]
NoPermitMessage == [owner |-> "", spender |-> "", value |-> <<>>, deadline |-> 0]

BulkPage(step, info, form, msg, data, calls, answer) ==
    [phase |-> "bulk", step |-> step, info |-> info, form |-> form, msg |-> msg,
     data |-> data, calls |-> calls, answer |-> answer]

\* the page after the wallet connected and fetchContractInfo() returned
BulkPageInit ==
    /\ balances = [a \in Accounts |-> IF a = ALICE THEN PageBalance ELSE 0]
    /\ allowance = [h \in Holders |-> 0]
    /\ nonces = [h \in Holders |-> 0]
    /\ usedPermits = {}
    /\ feeCollector = FEE
    /\ now = 1
    /\ spent = 0
    /\ relay = [i \in Slots |-> FreeSlot]
    /\ last = BulkPage("ready",
                       fetchContractInfo([name |-> "USD Coin", version |-> TokenVersion,
                                          decimals |-> MaxDecimals],
                                         PageBalance, 0, "fulfilled", "fulfilled"),
                       EmptyBulkForm(ALICE), NoPermitMessage, NoPermitData, 0, "none")

\* addRecipient(): MaxRecipients rows here, 50 in the page
AddRecipientRow ==
    /\ last.phase = "bulk"
    /\ last.step = "ready"
    /\ Len(last.form.recipients) < MaxRecipients
    /\ last' = [last EXCEPT !.form.recipients = Append(@, EmptyRow)]
    /\ UNCHANGED <<chain, now, spent, relay>>

\* handleRecipientChange(index, 'address', value) on an empty field
TypeRecipientAddress ==
    /\ last.phase = "bulk"
    /\ last.step = "ready"
    /\ \E i \in 1..Len(last.form.recipients) :
          /\ last.form.recipients[i].address = ""
          /\ last' = [last EXCEPT !.form.recipients[i].address = BOB]
    /\ UNCHANGED <<chain, now, spent, relay>>

\* handleRecipientChange(index, 'amount', value) on an empty field
TypeRecipientAmount ==
    /\ last.phase = "bulk"
    /\ last.step = "ready"
    /\ \E i \in 1..Len(last.form.recipients), amount \in AmountTexts :
          /\ last.form.recipients[i].amount = <<>>
          /\ last' = [last EXCEPT !.form.recipients[i].amount = amount]
    /\ UNCHANGED <<chain, now, spent, relay>>

\* handleBulkInputChange for the fee on an empty field
TypeBulkFee ==
    /\ last.phase = "bulk"
    /\ last.step = "ready"
    /\ last.form.feeAmount = <<>>
    /\ \E amount \in AmountTexts : last' = [last EXCEPT !.form.feeAmount = amount]
    /\ UNCHANGED <<chain, now, spent, relay>>

\* handleBulkSubmit up to the post: validation, the total as a number and its
\* conversion, the conversion of the fee and of every row, the permit message
\* and the permit data
HandleBulkSubmitPage ==
    /\ last.phase = "bulk"
    /\ last.step = "ready"
    /\ last.calls < MaxSubmits
    /\ validateBulkForm(last.form, last.info)
    /\ LET deadline == getPermitDeadline(now)
           totalRecipientAmount == calculateTotalRecipientAmount(last.form.recipients)
           totalValue == JsAdd(totalRecipientAmount,
                               ParseFloatOrZero(last.form.feeAmount))
           formattedTotalValue == formatUSDCAmount(NumberToString(totalValue),
                                                   last.info.decimals)
           feeAmountFormatted == formatUSDCAmount(last.form.feeAmount,
                                                  last.info.decimals)
           formattedRecipients == formatRecipientsForContract(last.form.recipients,
                                                              last.info.decimals)
       IN  last' = [last EXCEPT
                      !.step = "sent",
                      !.msg = [owner |-> last.form.ownerAddress, spender |-> THIS,
                               value |-> formattedTotalValue, deadline |-> deadline],
                      !.data = [owner |-> last.form.ownerAddress,
                                recipients |-> formattedRecipients,
                                totalValue |-> formattedTotalValue,
                                deadline |-> deadline,
                                feeAmount |-> feeAmountFormatted,
                                facilitatorAddress |-> THIS],
                      !.calls = @ + 1,
                      !.answer = "none"]
    /\ UNCHANGED <<chain, now, spent, relay>>

\* apiService.executeBulkPermitTransfer: the server has no handler for the
\* path, the call throws and the catch block reports the failure; the form
\* keeps its rows
BulkRelayerAnswers ==
    /\ last.phase = "bulk"
    /\ last.step = "sent"
    /\ Router("POST", BulkPath) = "none"
    /\ last' = [last EXCEPT !.step = "ready", !.answer = "Bulk transaction failed"]
    /\ UNCHANGED <<chain, now, spent, relay>>

BulkPageNext ==
    \/ AddRecipientRow
    \/ TypeRecipientAddress
    \/ TypeRecipientAmount
    \/ TypeBulkFee
    \/ HandleBulkSubmitPage
    \/ BulkRelayerAnswers

SpecBulkPage == BulkPageInit /\ [][BulkPageNext]_vars

\* ================================================== the submission workflow
\* FacilitateTransfer.jsx: handleSubmit and handleBulkSubmit are async
\* handlers; each runs from one await to the next without interruption.  The
\* handlers never read `loading`: what keeps a second submit out is the
\* submit button's `disabled={loading || !isConnected}`, that is the value of
\* `loading` at the last render.  A run is one call of a handler; its log is
\* the sequence of its setTxStatus calls.
MaxEvents == 2
Runs == 1..MaxEvents
Kinds == {"single", "bulk"}

Preparing(kind) ==
    IF kind = "single" THEN "Preparing permit signature..."
    ELSE "Preparing bulk permit signature..."
Awaiting == "Awaiting signature..."
Sending(kind) ==
    IF kind = "single" THEN "Sending to backend for execution..."
    ELSE "Sending bulk transfer to backend..."
Confirmed(kind) ==
    IF kind = "single" THEN "Transaction confirmed!" ELSE "Bulk transaction confirmed!"
Cleared == ""

\* mutant: the result's success flag is not looked at
StatusAfterResultUnchecked(kind, success) == Confirmed(kind)

\* the status the handler sets once the relayer call returned or threw
StatusAfterResult(kind, success) == IF success THEN Confirmed(kind) ELSE Cleared

NoRun ==
    [pc |-> "none", kind |-> "single", req |-> NoRequest, log |-> <<>>,
     answer |-> "none", mined |-> FALSE]

Flow(loading, txStatus, rendered, nonce, runs, signs, posts) ==
    [phase |-> "flow", loading |-> loading, txStatus |-> txStatus,
     rendered |-> rendered, nonce |-> nonce, runs |-> runs, signs |-> signs,
     posts |-> posts]

FlowInit ==
    /\ balances = [a \in Accounts |-> IF a \in Holders THEN InitBalance ELSE 0]
    /\ allowance = [h \in Holders |-> 0]
    /\ nonces = [h \in Holders |-> 0]
    /\ usedPermits = {}
    /\ feeCollector = FEE
    /\ now = 1
    /\ spent = {}
    /\ relay = [i \in Slots |-> FreeSlot]
    /\ last = Flow(FALSE, Cleared, FALSE, 0, [i \in Runs |-> NoRun], 0, 0)

InFlight(run) == run.pc \in {"signing", "posted", "answered", "fetching"}
FreeRun(i) == last.runs[i].pc = "none" /\ \A j \in 1..(i - 1) : last.runs[j].pc # "none"

\* a submit event reaches the form: the handler returns at once when the
\* form does not validate; otherwise it sets loading, the first two statuses,
\* builds the message and asks the wallet for the signature
SubmitEvent ==
    /\ last.phase = "flow"
    /\ ~last.rendered
    /\ nonces[ALICE] < MaxNonce
    /\ getPermitDeadline(now) \in Deadlines
    /\ \E i \in Runs, kind \in Kinds, valid \in BOOLEAN, feeAmount \in {1} :
          /\ FreeRun(i)
          /\ LET signed == IF kind = "single"
                           THEN Signed("facilitateTransferWithPermit", BOB, <<>>,
                                       InitBalance, feeAmount, last.nonce)
                           ELSE Signed("facilitateBulkTransferWithPermit", ZERO,
                                       <<[to |-> BOB, amount |-> InitBalance - feeAmount]>>,
                                       InitBalance, feeAmount, last.nonce)
             IN  last' = IF ~valid
                         THEN [last EXCEPT !.runs[i] = [NoRun EXCEPT !.pc = "rejected",
                                                                      !.kind = kind]]
                         ELSE [last EXCEPT
                                 !.loading = TRUE,
                                 !.txStatus = Awaiting,
                                 !.signs = @ + 1,
                                 !.runs[i] = [NoRun EXCEPT
                                                !.pc = "signing",
                                                !.kind = kind,
                                                !.req = signed.req,
                                                !.log = <<Preparing(kind), Awaiting>>]]
    /\ UNCHANGED <<chain, now, spent, relay>>

\* React renders the component again: the button shows the present loading
Render ==
    /\ last.phase = "flow"
    /\ last.rendered # last.loading
    /\ last' = [last EXCEPT !.rendered = last.loading]
    /\ UNCHANGED <<chain, now, spent, relay>>

\* signTypedDataAsync resolves: the handler sets the third status and posts
WalletSigns ==
    /\ last.phase = "flow"
    /\ \E i \in Runs :
          /\ last.runs[i].pc = "signing"
          /\ last' = [last EXCEPT
                        !.txStatus = Sending(last.runs[i].kind),
                        !.posts = @ + 1,
                        !.runs[i].pc = "posted",
                        !.runs[i].log = Append(@, Sending(last.runs[i].kind))]
    /\ UNCHANGED <<chain, now, spent, relay>>

\* signTypedDataAsync rejects: catch clears the status, finally ends loading
WalletRefuses ==
    /\ last.phase = "flow"
    /\ \E i \in Runs :
          /\ last.runs[i].pc = "signing"
          /\ last' = [last EXCEPT
                        !.txStatus = Cleared,
                        !.loading = FALSE,
                        !.runs[i].pc = "done",
                        !.runs[i].answer = "rejected",
                        !.runs[i].log = Append(@, Cleared)]
    /\ UNCHANGED <<chain, now, spent, relay>>

\* the relayer: a single request is sent as one transaction and answered
\* after tx.wait(), success when it was mined and an error when it reverted;
\* a bulk request has no route and is answered 404
ServerAnswers ==
    /\ last.phase = "flow"
    /\ \E i \in Runs :
          /\ last.runs[i].pc = "posted"
          /\ IF Router("POST", IF last.runs[i].kind = "single" THEN SinglePath
                               ELSE BulkPath) = "none"
             THEN /\ last' = [last EXCEPT !.runs[i].pc = "answered",
                                          !.runs[i].answer = "error"]
                  /\ UNCHANGED <<chain, spent>>
             ELSE LET out == Dispatch(ChainState, last.runs[i].req, now)
                  IN  /\ Execute(last.runs[i].req)
                      /\ last' = [last EXCEPT
                                    !.runs[i].pc = "answered",
                                    !.runs[i].mined = (out.err = "ok"),
                                    !.runs[i].answer = IF out.err = "ok" THEN "ok"
                                                       ELSE "error"]
    /\ UNCHANGED <<now, relay>>

\* apiService returns or throws: on success the handler sets the last status
\* and awaits fetchContractInfo(); otherwise catch clears the status and
\* finally ends loading
ClientReceives ==
    /\ last.phase = "flow"
    /\ \E i \in Runs :
          /\ last.runs[i].pc = "answered"
          /\ LET success == last.runs[i].answer = "ok"
                 status == StatusAfterResult(last.runs[i].kind, success)
             IN  last' = [last EXCEPT
                            !.txStatus = status,
                            !.loading = IF success THEN @ ELSE FALSE,
                            !.runs[i].pc = IF success THEN "fetching" ELSE "done",
                            !.runs[i].log = Append(@, status)]
    /\ UNCHANGED <<chain, now, spent, relay>>

\* fetchContractInfo() returns (it catches its own errors): finally ends
\* loading
FetchReturns ==
    /\ last.phase = "flow"
    /\ \E i \in Runs :
          /\ last.runs[i].pc = "fetching"
          /\ last' = [last EXCEPT !.loading = FALSE, !.nonce = nonces[ALICE],
                                  !.runs[i].pc = "done"]
    /\ UNCHANGED <<chain, now, spent, relay>>

FlowTick ==
    /\ last.phase = "flow"
    /\ now < MaxTime
    /\ now' = now + 1
    /\ UNCHANGED <<chain, spent, relay, last>>

FlowNext ==
    \/ SubmitEvent
    \/ Render
    \/ WalletSigns
    \/ WalletRefuses
    \/ ServerAnswers
    \/ ClientReceives
    \/ FetchReturns
    \/ FlowTick

\* the wallet, the relayer and the reads of fetchContractInfo answer
FlowFairness ==
    /\ WF_vars(WalletSigns \/ WalletRefuses)
    /\ WF_vars(ServerAnswers)
    /\ WF_vars(ClientReceives)
    /\ WF_vars(FetchReturns)

SpecFlow == FlowInit /\ [][FlowNext]_vars /\ FlowFairness

\* ================================================================ claims
Done == last.phase = "done"
Succeeded == Done /\ last.err = "ok"
IsSingle == last.req.fn \in SingleFns
IsBulk == last.req.fn \in BulkFns
Late == now > last.req.deadline
NothingMoved ==
    last.moves = <<>> /\ balances = last.balBefore /\ last.event = NoEvent

\* the request passes the field checks that come before the deadline check
FieldsPass ==
    /\ last.req.owner # ZERO
    /\ IsSingle => last.req.to # ZERO
    /\ IsBulk => Len(last.req.recipients) > 0
    /\ last.req.value > 0
    /\ last.req.feeAmount < last.req.value

RecipientsPass ==
    \A i \in 1..Len(last.req.recipients) :
        last.req.recipients[i].to # ZERO /\ last.req.recipients[i].amount > 0

SumLaw == last.req.value = SumAmounts(last.req.recipients) + last.req.feeAmount

RECURSIVE PaidTo(_, _)
PaidTo(moves, a) ==
    IF moves = <<>> THEN 0
    ELSE (IF moves[1].to = a THEN moves[1].amount ELSE 0) + PaidTo(Tail(moves), a)

\* C1: a permit (owner, value, deadline, v, r, s) that has moved value once
\* never moves value again, whatever entry point, recipients and fee the
\* later call names.
C1_PermitSingleUse == Succeeded => ~last.spentBefore

C1_Witness ==
    /\ Done
    /\ last.spentBefore
    /\ last.req.fn = "facilitateBulkTransferWithPermit"
    /\ last.err = "InvalidPermitSignature"

\* C2: the identical request, submitted again before its deadline after it
\* has been executed, fails with PermitAlreadyUsed and changes no balance.
C2_ReplayIsPermitAlreadyUsed ==
    (Done /\ last.okBefore /\ ~Late)
        => (last.err = "PermitAlreadyUsed" /\ balances = last.balBefore)

C5_SignatureBindsRecipients == Succeeded => last.asSigned

\* C6 as stated: whatever the other fields are, a fee that is not below the
\* total makes the call fail with InvalidFeeAmount.
C6_FeeNotBelowTotalAlwaysInvalidFeeAmount ==
    (Done /\ last.req.feeAmount >= last.req.value)
        => last.err = "InvalidFeeAmount"

\* C6 amended: a fee that is not below the total makes the call fail and
\* moves nothing; the error is InvalidFeeAmount whenever the owner and (single)
\* the recipient are not null, (bulk) the list is not empty and the total is
\* not 0, whether or not the deadline has passed, the fingerprint is used or
\* the entries of the list are well formed.
C6_FeeNotBelowTotal ==
    (Done /\ last.req.feeAmount >= last.req.value)
        => /\ last.err # "ok"
           /\ NothingMoved
           /\ (/\ last.req.owner # ZERO
               /\ IsSingle => last.req.to # ZERO
               /\ IsBulk => Len(last.req.recipients) > 0
               /\ last.req.value > 0) => last.err = "InvalidFeeAmount"

C6_Witness ==
    /\ Done
    /\ last.req.feeAmount = last.req.value
    /\ last.fpUsedBefore
    /\ Late
    /\ last.err = "InvalidFeeAmount"

\* C7 as stated: every bulk request whose amounts and fee do not add up to
\* the total fails with InvalidFeeAmount and moves nothing.
C7_SumLawAlwaysInvalidFeeAmount ==
    (Done /\ IsBulk /\ ~SumLaw)
        => (last.err = "InvalidFeeAmount" /\ NothingMoved)

\* C7 amended: a bulk request whose amounts and fee do not add up to the
\* total fails and moves nothing; the error is InvalidFeeAmount when the
\* request passes the checks made before the sum is compared: owner, list
\* length, total, deadline, and every entry's recipient and amount.
C7_SumLaw ==
    (Done /\ IsBulk /\ ~SumLaw)
        => /\ last.err # "ok"
           /\ NothingMoved
           /\ (FieldsPass /\ ~Late /\ RecipientsPass) => last.err = "InvalidFeeAmount"

C7_Witness ==
    /\ Done
    /\ IsBulk
    /\ last.req.recipients = <<[to |-> BOB, amount |-> 1], [to |-> BOB, amount |-> 1]>>
    /\ last.req.feeAmount = 1
    /\ last.req.value = 2
    /\ last.req.sig.signer = ALICE
    /\ last.err = "InvalidFeeAmount"

OtherwiseValid ==
    /\ FieldsPass
    /\ ~Late
    /\ IsBulk => (RecipientsPass /\ SumLaw)
    /\ ~last.fpUsedBefore

\* C10 as stated: a call that fails with InsufficientBalance moves nothing
\* and leaves the fingerprint of its request in the registry.
C10_FingerprintStaysMarked ==
    (Done /\ last.err = "InsufficientBalance")
        => /\ NothingMoved
           /\ HasFingerprint(last.req)
                 => Fingerprint(ChainState, last.req) \in usedPermits

\* C10 amended: an otherwise valid request whose fingerprint is not in the
\* registry, submitted while the owner's balance is below the total, fails
\* with InsufficientBalance, moves nothing and leaves its fingerprint out of
\* the registry; a later identical submission is not answered with
\* PermitAlreadyUsed.
C10_InsufficientBalance ==
    /\ (Done /\ OtherwiseValid
              /\ last.balBefore[last.req.owner] < last.req.value)
          => /\ last.err = "InsufficientBalance"
             /\ NothingMoved
             /\ HasFingerprint(last.req)
                   => Fingerprint(ChainState, last.req) \notin usedPermits
    /\ (Done /\ last.insufBefore /\ ~last.okBefore)
          => last.err # "PermitAlreadyUsed"

C10_Witness ==
    /\ Succeeded
    /\ last.insufBefore
    /\ HasFingerprint(last.req)

\* C11 as stated: a call that fails with InvalidPermitSignature moves nothing
\* and leaves the fingerprint of its request in the registry.
C11_RejectedSignatureBurnsFingerprint ==
    (Done /\ last.err = "InvalidPermitSignature")
        => /\ NothingMoved
           /\ HasFingerprint(last.req)
                 => Fingerprint(ChainState, last.req) \in usedPermits

\* C11 amended: a request that passes every check before the permit and
\* carries a signature the ledger rejects fails with InvalidPermitSignature;
\* a call that fails with InvalidPermitSignature moves nothing and leaves the
\* fingerprint of its request out of the registry.
C11_RejectedSignature ==
    /\ (Done /\ OtherwiseValid /\ last.req.sig = BadSig
             /\ last.balBefore[last.req.owner] >= last.req.value)
          => last.err = "InvalidPermitSignature"
    /\ (Done /\ last.err = "InvalidPermitSignature")
          => /\ NothingMoved
             /\ HasFingerprint(last.req)
                   => Fingerprint(ChainState, last.req) \notin usedPermits

C11_Witness ==
    /\ Done
    /\ last.req.fn = "facilitateTransferWithPermit"
    /\ last.req.sig = BadSig
    /\ last.err = "InvalidPermitSignature"
    /\ usedPermits = {}

\* C12: a facilitate call either fails as a whole, with nothing moved and no
\* event, or has every one of its value movements credited: the fee and every
\* recipient amount; a partly paid call is never a committed result.
C12_AllOrNothing ==
    Done =>
        \/ last.err # "ok" /\ NothingMoved
        \/ /\ last.err = "ok"
           /\ \A i \in 1..Len(last.moves) : last.moves[i].to \in Accounts
           /\ \A a \in Accounts :
                 balances[a] = last.balBefore[a] + PaidTo(last.moves, a)
                                 - (IF a = last.req.owner THEN last.req.value ELSE 0)

\* C13: when the submissions of one request have been in flight together and
\* all have been answered before the deadline, one of them having moved
\* value, then exactly one has moved value and every other one has been
\* answered with PermitAlreadyUsed.
C13_ExactlyOneProceeds ==
    (/\ \A i \in Slots : relay[i].pc = "answered" /\ relay[i].raced
     /\ \A i \in Slots : now <= relay[i].req.deadline
     /\ \E i \in Slots : relay[i].answer = "ok")
        => /\ Cardinality({i \in Slots : relay[i].answer = "ok"}) = 1
           /\ \A i \in Slots :
                 relay[i].answer # "ok" => relay[i].answer = "PermitAlreadyUsed"

\* C14: an entry of the replay registry, once set in a committed state, is
\* set in every later state: no step, an owner operation included, takes a
\* fingerprint out of usedPermits.
C14_RegistryMonotone == [][usedPermits \subseteq usedPermits']_vars

C14_Witness ==
    /\ usedPermits # {}
    /\ last.phase = "owner"
    /\ last.err = "ok"
    /\ feeCollector # FEE

\* C15: after a successful facilitate call the replay registry holds an
\* entry made for the request's owner, value and deadline.
C15_SuccessLeavesRegistryEntry ==
    Succeeded =>
        \E fp \in usedPermits :
            /\ fp.owner = last.req.owner
            /\ fp.value = last.req.value
            /\ fp.deadline = last.req.deadline

\* the fingerprint the public helper computes for the observed request
HelperFingerprint ==
    IF IsSingle
    THEN calculatePermitHash(last.req.owner, last.req.value, last.req.deadline,
                             last.req.sig)
    ELSE calculateBulkPermitHash(last.req.owner, last.req.value, last.req.deadline,
                                 Len(last.req.recipients))

\* C16: isPermitUsed of the helper's fingerprint is true once the request has
\* been executed and false as long as its permit has not been consumed.
C16_HelperAgreesWithRegistry ==
    /\ Succeeded => isPermitUsed(ChainState, HelperFingerprint)
    /\ (Done /\ last.err # "ok" /\ ~last.spentBefore)
          => ~isPermitUsed(ChainState, HelperFingerprint)

\* C17: a call that differs from a consumed request, the one observed before
\* it, in the value only or in the deadline only looks up another fingerprint,
\* one that is not in the registry, and is not answered with
\* PermitAlreadyUsed.
C17_VariantIsDistinct ==
    [][(/\ last.phase \in {"done", "old"}
        /\ (last.err = "ok" \/ last.okBefore)
        /\ last'.phase = "done"
        /\ last'.req.fn = last.req.fn
        /\ last'.req.owner = last.req.owner
        /\ last'.req.sig = last.req.sig
        /\ SameTransfer(last'.req, last.req)
        /\ (last'.req.value = last.req.value) # (last'.req.deadline = last.req.deadline))
       => /\ last'.err # "PermitAlreadyUsed"
          /\ HasFingerprint(last.req)
                => /\ Fingerprint(ChainState, last'.req) # Fingerprint(ChainState, last.req)
                   /\ Fingerprint(ChainState, last'.req) \notin usedPermits]_vars

C17_Witness ==
    /\ Done
    /\ last.req.fn = "facilitateTransferWithPermit"
    /\ last.err = "InvalidPermitSignature"
    /\ \E fp \in usedPermits :
          /\ fp.sig = last.req.sig
          /\ fp.deadline = last.req.deadline
          /\ fp.value # last.req.value

\* C18: a bulk call whose recipient list is longer than the maximum batch
\* size fails and moves nothing.
C18_RecipientListCap ==
    (Done /\ IsBulk /\ Len(last.req.recipients) > BatchCap)
        => (last.err # "ok" /\ NothingMoved)

\* the observed bulk request has a non-empty list, no null recipient, no zero
\* amount, and a total equal to the sum of the amounts plus the fee
BulkInvariant ==
    /\ Len(last.req.recipients) > 0
    /\ RecipientsPass
    /\ SumLaw

\* C19: a successful bulk call satisfies the bulk request invariant, and a
\* bulk call that violates it fails and moves nothing.
C19_BulkRequestInvariant ==
    /\ (Succeeded /\ IsBulk) => BulkInvariant
    /\ (Done /\ IsBulk /\ ~BulkInvariant) => (last.err # "ok" /\ NothingMoved)

C19_Witness ==
    /\ Succeeded
    /\ last.req.fn = "facilitateBulkTransferWithNonStandardPermit"
    /\ Len(last.req.recipients) = 2
    /\ last.req.feeAmount = 0
    /\ BulkInvariant

\* the signature of the observed single request is one the ledger accepted
\* (the call went through and consumed the nonce it was made for) or one it
\* rejects
PermitOutcome ==
    IF last.err = "ok"
    THEN /\ last.req.sig.signer = last.req.owner
         /\ last.req.sig.msg =
                createUSDCPermitMessage(last.req.owner, THIS, last.req.value,
                                        nonces[last.req.owner] - 1, last.req.deadline)
    ELSE /\ last.err = "InvalidPermitSignature"
         /\ ~PermitAccepts(ChainState.L, last.req.owner, THIS, last.req.value,
                           last.req.deadline, last.req.sig, now)

\* C20: a single call reports the first check it fails, in the order
\* InvalidRecipient, ZeroAmount, InvalidFeeAmount, PermitExpired,
\* PermitAlreadyUsed, InsufficientBalance, InvalidPermitSignature, and
\* succeeds when it fails none.
C20_SingleValidationOrder ==
    (Done /\ IsSingle) =>
        IF last.req.owner = ZERO \/ last.req.to = ZERO
        THEN last.err = "InvalidRecipient"
        ELSE IF last.req.value = 0 THEN last.err = "ZeroAmount"
        ELSE IF last.req.feeAmount >= last.req.value THEN last.err = "InvalidFeeAmount"
        ELSE IF Late THEN last.err = "PermitExpired"
        ELSE IF last.fpUsedBefore THEN last.err = "PermitAlreadyUsed"
        ELSE IF last.balBefore[last.req.owner] < last.req.value
             THEN last.err = "InsufficientBalance"
        ELSE PermitOutcome

C20_Witness ==
    /\ Done
    /\ IsSingle
    /\ ~Late
    /\ last.fpUsedBefore
    /\ last.okBefore
    /\ last.balBefore[last.req.owner] = 0
    /\ last.err = "PermitAlreadyUsed"

\* ------------------------------------------------------------------- C21
HasNullRecipient ==
    \E i \in 1..Len(last.req.recipients) : last.req.recipients[i].to = ZERO

HasZeroRecipientAmount ==
    \E i \in 1..Len(last.req.recipients) : last.req.recipients[i].amount = 0

BadEntry(i) ==
    last.req.recipients[i].to = ZERO \/ last.req.recipients[i].amount = 0

FirstBadEntry ==
    CHOOSE i \in 1..Len(last.req.recipients) :
        BadEntry(i) /\ \A j \in 1..(i - 1) : ~BadEntry(j)

\* C21 as stated: a bulk request with a null recipient in its list fails with
\* InvalidRecipient and one with a zero recipient amount (and no null
\* recipient) fails with ZeroAmount, also when the fee is bad or the deadline
\* has passed.
C21_BadEntryWinsOverFeeAndExpiry ==
    (Done /\ IsBulk)
        => /\ HasNullRecipient => last.err = "InvalidRecipient"
           /\ (HasZeroRecipientAmount /\ ~HasNullRecipient) => last.err = "ZeroAmount"

\* C21 amended: a bulk request whose list has an entry with a null recipient
\* or a zero amount fails and moves nothing.  When the owner is not null,
\* totalValue > feeAmount and the deadline has not passed, the error is that
\* of the first such entry: InvalidRecipient if its recipient is null,
\* InvalidRecipientAmount otherwise.  A fee not below the total is reported as
\* InvalidFeeAmount and a past deadline as PermitExpired before the list is
\* looked at; only the sum check comes after the list.
C21_BadEntry ==
    (Done /\ IsBulk /\ ~RecipientsPass)
        => /\ last.err # "ok"
           /\ NothingMoved
           /\ (FieldsPass /\ ~Late) =>
                  last.err = (IF last.req.recipients[FirstBadEntry].to = ZERO
                              THEN "InvalidRecipient" ELSE "InvalidRecipientAmount")
           /\ (FieldsPass /\ Late) => last.err = "PermitExpired"
           /\ (last.req.owner # ZERO /\ last.req.value > 0
                 /\ last.req.feeAmount >= last.req.value)
                  => last.err = "InvalidFeeAmount"

C21_Witness ==
    /\ Done
    /\ IsBulk
    /\ HasZeroRecipientAmount
    /\ ~HasNullRecipient
    /\ FieldsPass
    /\ ~Late
    /\ ~SumLaw
    /\ last.err = "InvalidRecipientAmount"

\* ------------------------------------------------------------------- C22
\* C22: a successful call emits one completion event and a failed call emits
\* none; the event of a single transfer names the owner and the recipient and
\* its amountSent + feeAmount is the request's value; the event of a bulk
\* transfer names the owner, its recipientCount is the length of the list and
\* its totalAmountSent + feeAmount is totalValue.
C22_CompletionEvent ==
    Done =>
        /\ ~Succeeded => last.event = NoEvent
        /\ (Succeeded /\ IsSingle) =>
               /\ last.event.kind = "FacilitationExecuted"
               /\ last.event.owner = last.req.owner
               /\ last.event.to = last.req.to
               /\ last.event.feeAmount = last.req.feeAmount
               /\ last.event.amountSent + last.event.feeAmount = last.req.value
        /\ (Succeeded /\ IsBulk) =>
               /\ last.event.kind = "BulkFacilitationExecuted"
               /\ last.event.owner = last.req.owner
               /\ last.event.count = Len(last.req.recipients)
               /\ last.event.feeAmount = last.req.feeAmount
               /\ last.event.amountSent + last.event.feeAmount = last.req.value

C22_Witness ==
    /\ Succeeded
    /\ last.req.fn = "facilitateTransferWithNonStandardPermit"
    /\ last.req.value = 3
    /\ last.req.feeAmount = 1
    /\ last.event.amountSent = 2

\* ------------------------------------------------------------------- C23
\* the number a decimal string denotes, in units of 10^-MaxChars
Denotes(s) ==
    LET m == FixedMatch(s)
        frac == SubSeq(m.decimal \o Zeros(MaxChars), 1, MaxChars)
        mag == DigitsToInt(m.whole) * Pow10(MaxChars) + DigitsToInt(frac)
    IN  IF m.neg THEN 0 - mag ELSE mag

\* a decimal string: digits with at most one point, at least one digit, no
\* sign, and no more than `decimals` digits after the point
ValidDecimal(s, decimals) ==
    LET m == FixedMatch(s)
    IN  /\ m.ok
        /\ ~m.neg
        /\ Len(m.whole) + Len(m.decimal) > 0
        /\ Len(m.decimal) <= decimals

\* C23: for every integer x in 0..MaxAmount and every precision,
\* formatUSDCAmount(parseUSDCAmount(x, p), p) is x again; and for every valid
\* decimal string d, parseUSDCAmount(formatUSDCAmount(d, p), p) denotes the
\* same number as d.
C23_CodecRoundTrip ==
    last.phase = "codec" =>
        /\ last.step = "parsed-formatted" => last.back = last.text
        /\ (last.step = "formatted-parsed" /\ ValidDecimal(last.text, last.decimals))
               => /\ FixedMatch(last.back).ok
                  /\ Denotes(last.back) = Denotes(last.text)

C23_Witness ==
    /\ last.phase = "codec"
    /\ last.step = "parsed-formatted"
    /\ last.text = <<"7">>
    /\ last.decimals = 2
    /\ last.out = <<"0", ".", "0", "7">>
    /\ last.back = <<"7">>

\* ------------------------------------------------------------------- C24
Submitted == last.phase = "page" /\ last.calls > 0

\* the smallest-unit integer string `out` is the amount the text `typed`
\* denotes at `decimals` places
SameAmount(typed, out, decimals) ==
    /\ ValidDecimal(typed, decimals)
    /\ IsIntegerString(out)
    /\ StringToInt(out) * Pow10(MaxChars) = Denotes(typed) * Pow10(decimals)

\* C24: a typed amount that is not a decimal number, is negative or has more
\* fractional digits than the token's decimals never reaches the signed
\* permit message or the submitted request as some other number: whenever
\* the form was submitted, the value signed and the fee sent are the amounts
\* that were typed.
C24_MalformedAmountNeverSubmitted ==
    Submitted =>
        /\ SameAmount(last.msg.typed, last.msg.value, last.info.decimals)
        /\ SameAmount(last.msg.typedFee, last.msg.feeAmount, last.info.decimals)

\* ------------------------------------------------------------------- C25
\* C25: the domain name and version of every typed message the holder is
\* asked to sign are those of the token, also when the read of name() or
\* version() failed or gave an empty value.
C25_DomainIsTheTokens ==
    Submitted =>
        /\ last.msg.domain.name = last.token.name
        /\ last.msg.domain.version = last.token.version

\* ------------------------------------------------------------------- C26
\* C26: feeCollector is never the zero address; it changes only in a
\* successful updateFeeCollector called by the owner, to the address given;
\* an updateFeeCollector by another caller or to the zero address fails and
\* leaves it as it was; no facilitate call and no rescueTokens changes it.
C26_FeeCollectorIntegrity ==
    /\ feeCollector # ZERO
    /\ [][/\ feeCollector' # ZERO
          /\ feeCollector' # feeCollector
                => /\ last'.phase = "owner"
                   /\ last'.req.fn = "updateFeeCollector"
                   /\ last'.req.owner = OWNER
                   /\ last'.err = "ok"
          /\ (last'.phase = "owner" /\ last' # last /\ last'.req.owner # OWNER)
                => /\ last'.err = "OwnableUnauthorizedAccount"
                   /\ feeCollector' = feeCollector
          /\ (last'.phase = "owner" /\ last'.err # "ok") => feeCollector' = feeCollector
          /\ last'.phase = "done" => feeCollector' = feeCollector]_vars

C26_Witness ==
    /\ last.phase = "owner"
    /\ last.req.fn = "updateFeeCollector"
    /\ last.req.owner = OWNER
    /\ last.err = "ok"
    /\ feeCollector = BOB

Handled == last.phase = "api" /\ last.step # "received"

MissingField ==
    \E f \in {"owner", "to", "value", "deadline", "v", "r", "s", "feeAmount"} :
        last.body[f] = Undefined

SameAddress(x, a) == x.t = "string" /\ toLowerCase(x.v) = toLowerCase(a)

BadRequest ==
    \/ MissingField
    \/ last.body.chainId # JNum(EnvChainId)
    \/ ~SameAddress(last.body.facilitatorAddress, EnvFacilitator)
    \/ ~SameAddress(last.body.tokenAddress, EnvUsdc)
    \/ (last.body.deadline # Undefined /\ now > last.body.deadline.v)

\* C28: a request with a missing required field, another chain ID, another
\* facilitator or token address or a deadline in the past is answered 400 and
\* neither a gas estimate nor a transaction is made for it; and a request
\* whose feeAmount is zero and that lacks no field is not answered "missing".
C28_RelayerInputValidation ==
    Handled =>
        /\ BadRequest => /\ last.answer.status = 400
                         /\ last.estimates = 0
                         /\ last.sends = 0
        /\ (last.body.feeAmount \in {JStr(<<"0">>), JNum(0)}
              /\ ~MissingField /\ last.body.deadline # JNum(0))
               => last.answer.error # "Missing required parameters"

\* ------------------------------------------------------------------- C29
\* C29: on every form submission the nonce of the permit message is the
\* holder's nonce on the ledger at that moment, also when the nonce has
\* advanced since the page loaded its contract info.
C29_SignedNonceIsCurrent ==
    Submitted => last.msg.nonce = IntToString(last.msg.ledgerNonce)

\* ------------------------------------------------------------------- C30
\* C30: a call of an entry point that ends in an error, a reverting transfer
\* included, leaves every balance, the facilitator's allowance, the nonces,
\* feeCollector and the usedPermits registry as they were before the call.
C30_FailedCallChangesNothing ==
    [][(last'.phase = "done" /\ last'.err # "ok") => chain' = chain]_vars

C30_Witness ==
    /\ Done
    /\ last.err = "TransferReverted"
    /\ HasFingerprint(last.req)
    /\ Fingerprint(ChainState, last.req) \notin usedPermits
    /\ allowance[ALICE] = 0
    /\ balances = last.balBefore

\* ------------------------------------------------------------------- C34
\* C34: after every successful single or bulk call the allowance the holder
\* has granted to the facilitator on the ledger is zero.
C34_NoLeftoverAllowance ==
    Succeeded => allowance[last.req.owner] = 0

\* ------------------------------------------------------------------- C35
\* C35: while a call of an entry point is in progress, its ledger calls
\* included, no other call of any of the four entry points executes: at most
\* one is executing, a call the ledger makes back fails with
\* ReentrancyGuardReentrantCall, the chain stays as the outer call found it
\* until that call commits, and the guard is ENTERED exactly while a call is
\* in progress.
C35_NoReentrancy ==
    last.phase = "guard" =>
        /\ last.depth <= 1
        /\ last.status = "ENTERED" <=> last.depth = 1
        /\ last.nested.fn # "none" => last.nested.err = "ReentrancyGuardReentrantCall"
        /\ last.depth = 1 => ChainState = last.entry

C35_Witness ==
    /\ last.phase = "guard"
    /\ last.depth = 1
    /\ last.req.fn = "facilitateTransferWithPermit"
    /\ last.nested.fn = "facilitateBulkTransferWithNonStandardPermit"
    /\ last.nested.at = "transferFrom"
    /\ last.nested.err = "ReentrancyGuardReentrantCall"

\* C31: bulk requests reach a bulk entry point.  A well-formed bulk request
\* the client posted (one the bulk entry point would accept on the present
\* ledger) and the relayer answered was submitted as exactly one call of a
\* bulk facilitate entry point and answered with success, as a single request
\* is.
C31_BulkReachesBulkEntryPoint ==
    (/\ last.phase = "http"
     /\ last.step = "answered"
     /\ last.req.fn \in BulkFns
     /\ Dispatch(ChainState, last.req, now).err = "ok")
        => /\ last.status = 200
           /\ last.sends = 1
           /\ last.called \in BulkFns

RECURSIVE SumOfData(_)
SumOfData(recipients) ==
    IF recipients = <<>> THEN 0
    ELSE StringToInt(recipients[1].amount) + SumOfData(Tail(recipients))

BulkSubmitted == last.phase = "bulk" /\ last.calls > 0

\* C32: what is submitted is what was signed.  In a bulk submission the owner,
\* the total value and the deadline posted to the relayer are those of the
\* signed message, the message's spender is the facilitator, and the posted
\* totalValue is the sum of the posted recipient amounts plus the posted fee.
C32_SubmittedIsSigned ==
    BulkSubmitted =>
        /\ last.data.owner = last.msg.owner
        /\ last.data.totalValue = last.msg.value
        /\ last.data.deadline = last.msg.deadline
        /\ last.msg.spender = THIS
        /\ StringToInt(last.data.totalValue)
             = SumOfData(last.data.recipients) + StringToInt(last.data.feeAmount)

\* the part of C32 that is about what was signed
C32_SignedPart ==
    BulkSubmitted =>
        /\ last.data.owner = last.msg.owner
        /\ last.data.totalValue = last.msg.value
        /\ last.data.deadline = last.msg.deadline
        /\ last.msg.spender = THIS

\* the sequences of statuses one call of a handler may have set so far
StatusLogs(kind) ==
    {<<>>,
     <<Preparing(kind), Awaiting>>,
     <<Preparing(kind), Awaiting, Cleared>>,
     <<Preparing(kind), Awaiting, Sending(kind)>>,
     <<Preparing(kind), Awaiting, Sending(kind), Cleared>>,
     <<Preparing(kind), Awaiting, Sending(kind), Confirmed(kind)>>}

InLog(run, status) == \E k \in 1..Len(run.log) : run.log[k] = status
Failed(run) == run.pc = "done" /\ run.answer \in {"rejected", "error"}
FlowLoading == last.phase = "flow" /\ last.loading
FlowNotLoading == last.phase = "flow" /\ ~last.loading

C33_Statuses ==
    last.phase = "flow" =>
        /\ \A i \in Runs :
              LET run == last.runs[i]
              IN  /\ run.log \in StatusLogs(run.kind)
                  /\ InLog(run, Confirmed(run.kind)) => run.answer = "ok" /\ run.mined
                  /\ Failed(run) => run.log[Len(run.log)] = Cleared
                  /\ run.pc = "done" => Len(run.log) >= 3
        /\ last.txStatus \in {Confirmed(k) : k \in Kinds}
              => \E i \in Runs : last.runs[i].answer = "ok" /\ last.runs[i].mined

C36_OneSubmissionInFlight ==
    last.phase = "flow" =>
        Cardinality({i \in Runs : InFlight(last.runs[i])}) <= 1

====
